---- MODULE Spec2Model ----
(***************************************************************************)
(* A model of the UCAS scraper's core: the retrying, status-classifying    *)
(* fetch client with its named-channel rate limiter (utils/fetcher), the   *)
(* hierarchical cache store with its fallback read (v3/utils/file_handler) *)
(* and the per-course acquisition that the crawl scripts drive             *)
(* (v2/acquirers/course_acquirer).                                         *)
(***************************************************************************)
EXTENDS Integers, Sequences, FiniteSets, TLC

(***************************************************************************)
(* Bounds of the model.                                                    *)
(***************************************************************************)
MaxRequests == 2
MaxAcquires == 4
MaxAllowed == 2
MaxSeconds == 2
MaxRetries == 3
MaxOps == 3
MaxRuns == 2

(***************************************************************************)
(* Program constants.                                                      *)
(***************************************************************************)
ExcerptCap == 79
RetryDelay == 1

Min(a, b) == IF a < b THEN a ELSE b

Last(s) == s[Len(s)]

Take(s, n) == SubSeq(s, 1, Min(n, Len(s)))

(***************************************************************************)
(* Inputs of the fetch client.                                             *)
(***************************************************************************)
URIs == {"u1", "u2"}

\* HttpVerb has the members GET and POST; request() also has a default arm.
HttpVerb == {"GET", "POST"}
Verbs == HttpVerb \cup {"PATCH"}

\* rate_limits keys of the configuration, and a name that is not configured
Channels == {"universal", "search"}
ChannelNames == Channels \cup {"bogus"}

Whitespace == {" ", "\n", "\t"}

EmptyBody == <<>>
ShortBody == <<"o", "k">>
SpacedBody == <<" ", "e", "\n", "\t", "r", " ", " ">>
LongBody == [i \in 1..(ExcerptCap + 3) |-> IF i % 4 = 0 THEN "\n" ELSE "x"]
Bodies == {EmptyBody, ShortBody, SpacedBody, LongBody}

Statuses == {200, 404, 500}

\* the responses the server is taken to give
Responses ==
    {<<200, EmptyBody>>, <<200, ShortBody>>, <<404, ShortBody>>,
     <<500, EmptyBody>>, <<500, SpacedBody>>, <<500, LongBody>>}

\* the exceptions request() catches and retries on
TransientErrors == {"ConnectTimeout", "ReadTimeout", "RemoteProtocolError"}
\* a transport failure that request() does not catch
OtherErrors == {"ConnectError"}

\* what one call of the HTTP client can do
Outcomes ==
    {[kind |-> "response", status |-> r[1], body |-> r[2], exc |-> "-"] :
        r \in Responses}
    \cup [kind : {"exc"}, status : {0}, body : {EmptyBody},
          exc : TransientErrors \cup OtherErrors]

VerbError == [kind |-> "verb", status |-> 0, body |-> EmptyBody, exc |-> "ValueError"]

Budgets == [requests : 0..MaxAllowed, seconds : 1..MaxSeconds, counter : {0}]

VARIABLES
    max_retries,    \* FetcherConfig.max_retries
    rate_limits,    \* FetcherConfig.rate_limits: channel -> RateLimit
    pc,             \* where the fetch client's caller stands
    call,           \* the logical call in progress: entry point, verb, uri
    attempt,        \* the loop variable of request()
    client,         \* number of HttpClient objects created so far
    result,         \* what the last call returned or raised
    printed,        \* the diagnostic ResponseHandler.process printed last
    ledger,         \* the lines of the error ledger file
    trace,          \* what each attempt of the call in progress met
    sleeps,         \* the time.sleep calls of the call in progress
    acquired,       \* per channel, the seconds each acquire slept (0: none)
    ledger_mark,    \* length of the ledger when the call in progress began
    nreq,           \* number of calls made
    files,          \* the files under the output directory: path -> content
    dirs,           \* the directories under the output directory
    op,             \* the cache store operation made last, with its result
    nops,           \* number of cache store operations made
    source,         \* what the statistics source holds for each course
    grades,         \* the predicted grades configured for this run
    run,            \* which run of the acquisition script this is
    idx,            \* position of the script's loop in the list of ids
    step,           \* where CourseAcquirer.process stands
    details,        \* CourseAcquirer.details
    course,         \* CourseAcquirer.course, the merged record
    rates,          \* confirmation_rates of __fetch_confirmation_rates
    gi,             \* position of its loop in the predicted grades
    records,        \* per run, the merged records of the courses processed
    net,            \* per run, the requests handed to the fetch client
    captured,       \* per run, the requests whose answer went to the cache
    catalogue,      \* the result pages the site holds
    page,           \* the page counter of _collect_course_data
    articles,       \* the articles selected from the page in hand
    new_courses,    \* new_courses of _process_page
    courses,        \* courses of _collect_course_data
    closed,         \* whether search_courses has closed the fetcher
    builder,        \* which CourseBuilder runs: that of v2 or that of v3
    course_locations,   \* the cached courses from_file_cache loops over
    all_confirmation_rates, \* confirmation_rates of from_file_cache
    raised          \* the exception that left from_file_cache, if any

fetchVars == <<max_retries, rate_limits, pc, call, attempt, client, result,
               printed, ledger, trace, sleeps, acquired, ledger_mark, nreq>>

storeVars == <<files, dirs, op, nops>>

crawlVars == <<source, grades, run, idx, step, details, course, rates, gi, records,
               net, captured>>

searchVars == <<catalogue, page, articles, new_courses, courses, closed>>

buildVars == <<builder, course_locations, all_confirmation_rates, raised>>

vars == <<fetchVars, storeVars, crawlVars, searchVars, buildVars>>

NoResult == [kind |-> "none", bytes |-> EmptyBody, int |-> 0, exc |-> "-"]
BytesResult(b) == [kind |-> "bytes", bytes |-> b, int |-> 0, exc |-> "-"]
StatusResult(n) == [kind |-> "int", bytes |-> EmptyBody, int |-> n, exc |-> "-"]
Raised(e) == [kind |-> "raise", bytes |-> EmptyBody, int |-> 0, exc |-> e]

\* a request without a body
NoPayload == [courseIds |-> "-", grade |-> "-"]

NoCall ==
    [verb |-> "-", uri |-> "-", payload |-> NoPayload, channel |-> "-",
     requested |-> FALSE]

NoDiag == [status |-> 0, text |-> <<>>]

(***************************************************************************)
(* ResponseHandler.process                                                 *)
(***************************************************************************)
\* re.sub("\\s+", " ", text): every maximal run of whitespace becomes one space
Join(l, r) ==
    IF l # <<>> /\ r # <<>> /\ l[Len(l)] = " " /\ r[1] = " "
    THEN l \o Tail(r)
    ELSE l \o r

RECURSIVE Collapse(_)
Collapse(s) ==
    IF Len(s) = 0 THEN <<>>
    ELSE IF Len(s) = 1 THEN (IF s[1] \in Whitespace THEN <<" ">> ELSE s)
    ELSE Join(Collapse(SubSeq(s, 1, Len(s) \div 2)),
              Collapse(SubSeq(s, Len(s) \div 2 + 1, Len(s))))

ExcerptUncapped(text) == Collapse(text)

Excerpt(text) == Take(Collapse(text), ExcerptCap)

\* the returned value and the diagnostic line printed for a response
ProcessResponse(status, content, text) ==
    CASE status = 200 -> [ret |-> BytesResult(content), out |-> NoDiag]
      [] status = 404 -> [ret |-> StatusResult(status), out |-> NoDiag]
      [] OTHER ->
            IF text # <<>>
            THEN [ret |-> StatusResult(status),
                  out |-> [status |-> status, text |-> Excerpt(text)]]
            ELSE [ret |-> StatusResult(status), out |-> NoDiag]

(***************************************************************************)
(* Fetcher.__apply_rate_limit                                              *)
(***************************************************************************)
RateLimitExceededEarly(rl) == rl.counter >= rl.requests

\* a comparison one request late, for comparison
RateLimitExceededLate(rl) == rl.counter > rl.requests + 1

RateLimitExceeded(rl) == rl.counter > rl.requests

\* a reset that counts the overflowing request, for comparison
ResetCarryingOver(rl) == [rl EXCEPT !.counter = 1]

\* `rate_limit.counter = 0`
Reset(rl) == [rl EXCEPT !.counter = 0]

ChannelOrDefault(limit_type) ==
    IF limit_type \in DOMAIN rate_limits THEN limit_type ELSE "universal"

ChannelOf(limit_type) == limit_type

\* the outcome of __apply_rate_limit: whether it raised, the new table of
\* channels and the seconds it slept
ApplyRateLimit(limit_type) ==
    LET ch == ChannelOf(limit_type) IN
    IF ch \notin DOMAIN rate_limits
    THEN [raised |-> TRUE, limits |-> rate_limits, slept |-> 0]
    ELSE LET bumped == [rate_limits[ch] EXCEPT !.counter = @ + 1] IN
         IF RateLimitExceeded(bumped)
         THEN [raised |-> FALSE,
               limits |-> [rate_limits EXCEPT ![ch] = Reset(bumped)],
               slept |-> bumped.seconds]
         ELSE [raised |-> FALSE,
               limits |-> [rate_limits EXCEPT ![ch] = bumped],
               slept |-> 0]

(***************************************************************************)
(* Fetcher.request and its helpers                                         *)
(***************************************************************************)
IsTransientAny(exc) == TRUE

IsTransient(exc) == exc \in TransientErrors

\* a loop that tries once whatever the bound, for comparison
ForNextAtLeastOnce(i) ==
    IF i < max_retries \/ i = 0 THEN "execute" ELSE "failure"

\* a loop that waits at its end instead of giving up, for comparison
ForNextSuspended(i) == IF i < max_retries THEN "execute" ELSE "suspended"

ForNextInclusive(i) == IF i <= max_retries THEN "execute" ELSE "failure"

\* for attempt in range(max_retries): the next iteration, or the loop's end
ForNext(i) == IF i < max_retries THEN "execute" ELSE "failure"

RetrySleepsNone(s) == s

RetrySleeps(s) == Append(s, [why |-> "backoff", secs |-> RetryDelay])

\* Path(config.error_log_path).parent: the base directory, the parent of
\* every store
ErrorLogParent == <<>>

LedgerParentKept(ds) == ds

\* error_dir.mkdir(parents=True, exist_ok=True)
LedgerParent(ds) == ds \cup {ErrorLogParent}

LogErrorNothing(lines, uri) == lines

LogError(lines, uri) == Append(lines, uri)

Sleep(secs) == IF secs > 0 THEN <<[why |-> "rate", secs |-> secs]>> ELSE <<>>

\* entering request(verb, uri, payload)
Enter(verb, uri, payload, channel) ==
    /\ call' = [verb |-> verb, uri |-> uri, payload |-> payload,
                channel |-> channel, requested |-> TRUE]
    /\ attempt' = 0
    /\ pc' = ForNext(0)
    /\ trace' = <<>>
    /\ result' = NoResult
    /\ printed' = NoDiag
    /\ ledger_mark' = Len(ledger)
    /\ nreq' = nreq + 1
    /\ UNCHANGED <<max_retries, client, ledger>>

\* a call of request(verb, uri, payload) by an idle caller
Request(verb, uri, payload) ==
    /\ pc = "idle"
    /\ Enter(verb, uri, payload, "-")
    /\ sleeps' = <<>>
    /\ UNCHANGED <<rate_limits, acquired>>

request(verb, uri) ==
    /\ Request(verb, uri, NoPayload)
    /\ UNCHANGED <<storeVars, crawlVars, searchVars, buildVars>>

fetch(uri) ==
    /\ Request("GET", uri, NoPayload)
    /\ UNCHANGED <<storeVars, crawlVars, searchVars, buildVars>>

post(uri) ==
    /\ Request("POST", uri, NoPayload)
    /\ UNCHANGED <<storeVars, crawlVars, searchVars, buildVars>>

\* __apply_rate_limit, then the wrapped call
WithRateLimit(verb, uri, payload, limit_type) ==
    LET r == ApplyRateLimit(limit_type) IN
    /\ pc = "idle"
    /\ IF r.raised
       THEN /\ pc' = "raised"
            /\ result' = Raised("KeyError")
            /\ call' = [verb |-> verb, uri |-> uri, payload |-> payload,
                        channel |-> limit_type, requested |-> FALSE]
            /\ trace' = <<>>
            /\ sleeps' = <<>>
            /\ printed' = NoDiag
            /\ ledger_mark' = Len(ledger)
            /\ nreq' = nreq + 1
            /\ UNCHANGED <<max_retries, rate_limits, attempt, client, ledger,
                           acquired>>
       ELSE /\ rate_limits' = r.limits
            /\ sleeps' = Sleep(r.slept)
            /\ acquired' = [acquired EXCEPT
                              ![ChannelOf(limit_type)] = Append(@, r.slept)]
            /\ Enter(verb, uri, payload, limit_type)

fetch_with_rate_limit(uri, limit_type) ==
    /\ WithRateLimit("GET", uri, NoPayload, limit_type)
    /\ UNCHANGED <<storeVars, crawlVars, searchVars, buildVars>>

post_with_rate_limit(uri, limit_type) ==
    /\ WithRateLimit("POST", uri, NoPayload, limit_type)
    /\ UNCHANGED <<storeVars, crawlVars, searchVars, buildVars>>

\* one pass through the try block: __execute_request, then
\* ResponseHandler.process or the except clause
execute_request(o) ==
    /\ pc = "execute"
    /\ IF call.verb \notin HttpVerb
       THEN /\ trace' = Append(trace, VerbError)
            /\ pc' = "raised"
            /\ result' = Raised("ValueError")
            /\ UNCHANGED printed
       ELSE /\ trace' = Append(trace, o)
            /\ IF o.kind = "response"
               THEN LET p == ProcessResponse(o.status, o.body, o.body) IN
                    /\ pc' = "returned"
                    /\ result' = p.ret
                    /\ printed' = p.out
               ELSE IF IsTransient(o.exc)
                    THEN /\ pc' = "retry"
                         /\ UNCHANGED <<result, printed>>
                    ELSE /\ pc' = "raised"
                         /\ result' = Raised(o.exc)
                         /\ UNCHANGED printed
    /\ UNCHANGED <<max_retries, rate_limits, call, attempt, client, ledger,
                   sleeps, acquired, ledger_mark, nreq>>
    /\ UNCHANGED <<storeVars, crawlVars, searchVars, buildVars>>

\* __handle_retry, then the loop's next iteration
handle_retry ==
    /\ pc = "retry"
    /\ sleeps' = RetrySleeps(sleeps)
    /\ client' = client + 1
    /\ attempt' = attempt + 1
    /\ pc' = ForNext(attempt + 1)
    /\ UNCHANGED <<max_retries, rate_limits, call, result, printed, ledger,
                   trace, acquired, ledger_mark, nreq>>
    /\ UNCHANGED <<storeVars, crawlVars, searchVars, buildVars>>

\* __handle_failure: __log_error, then raise HttpError
handle_failure ==
    /\ pc = "failure"
    /\ dirs' = LedgerParent(dirs)
    /\ ledger' = LogError(ledger, call.uri)
    /\ result' = Raised("HttpError")
    /\ pc' = "raised"
    /\ UNCHANGED <<max_retries, rate_limits, call, attempt, client, printed,
                   trace, sleeps, acquired, ledger_mark, nreq>>
    /\ UNCHANGED <<files, op, nops>>
    /\ UNCHANGED <<crawlVars, searchVars, buildVars>>

\* the caller has taken the result: the call's frame is gone
Resume ==
    /\ pc \in {"returned", "raised"}
    /\ pc' = "idle"
    /\ call' = NoCall
    /\ attempt' = 0
    /\ result' = NoResult
    /\ printed' = NoDiag
    /\ trace' = <<>>
    /\ sleeps' = <<>>
    /\ ledger_mark' = Len(ledger)
    /\ UNCHANGED <<max_retries, rate_limits, client, ledger, acquired, nreq>>

resume ==
    /\ Resume
    /\ UNCHANGED <<storeVars, crawlVars, searchVars, buildVars>>

(***************************************************************************)
(* The cache store: FileHandler of v3/utils/file_handler.py.               *)
(***************************************************************************)
\* the store a FileHandler("data") works on, and the prior-version store
DataTop == <<"d", "a", "t", "a">>
LegacyTop == <<"v", "1", ".", "1">>
Tops == {DataTop, LegacyTop}

\* locations handed to the store: path segments as strings of characters
NoLocation == <<>>
ShortLocation == << <<"p">> >>
SlashLocation == << <<"p">>, <<"a", "/", "b">> >>
AmpLocation == << <<"p">>, <<"a", " ", "&", " ", "b">> >>
CourseLocation == << <<"p">>, <<"u">>, <<"t">>, <<"q">>, <<"y">> >>
ParentLocation == << <<".", ".">>, <<"p">> >>
Locations ==
    {NoLocation, ShortLocation, SlashLocation, AmpLocation, CourseLocation,
     ParentLocation}

Documents == {"historic"}

\* Python values handed to write: a dict is its items in insertion order,
\* each key a str or an int
StrKey(x) == [t |-> "str", s |-> x, n |-> 0]
IntKey(k) == [t |-> "int", s |-> "", n |-> k]

Dict(items) == [type |-> "dict", items |-> items, text |-> <<>>, lines |-> <<>>]
Str(text) == [type |-> "str", items |-> <<>>, text |-> text, lines |-> <<>>]
List(lines) == [type |-> "list", items |-> <<>>, text |-> <<>>, lines |-> lines]

EmptyRecord == Dict(<<>>)
GradesRecord ==
    Dict(<< <<StrKey("minimumGrade"), "BBB">>, <<StrKey("maximumGrade"), "AAA">> >>)
RatesRecord ==
    Dict(<< <<StrKey("ABC"), "0.5">>, <<StrKey("ucas_id"), "id1">> >>)
Markup == Str(<<"<", "p", ">">>)

\* two dicts are equal when they hold the same items
DeepEqual(a, b) ==
    /\ a.type = b.type
    /\ {a.items[i] : i \in 1..Len(a.items)} = {b.items[i] : i \in 1..Len(b.items)}
    /\ a.text = b.text
    /\ a.lines = b.lines

\* the list of ids the search writes: each line ends with a newline
IdLines == List(<< <<"c", "1", "\n">>, <<"c", "2", "\n">> >>)

Records == {EmptyRecord, GradesRecord, RatesRecord}
Contents == Records \cup {Markup, IdLines}

\* __sanitize_path_component: drop backslashes, then "/" becomes " & "
RECURSIVE Sanitize(_)
Sanitize(component) ==
    IF component = <<>> THEN <<>>
    ELSE IF Head(component) = "\\" THEN Sanitize(Tail(component))
    ELSE IF Head(component) = "/"
         THEN <<" ", "&", " ">> \o Sanitize(Tail(component))
    ELSE <<Head(component)>> \o Sanitize(Tail(component))

\* the directory a sequence of path components names: "" and "." name the
\* directory itself, ".." its parent
RECURSIVE Resolve(_, _)
Resolve(at, components) ==
    IF components = <<>> THEN at
    ELSE LET c == Head(components) IN
         IF c = <<>> \/ c = <<".">> THEN Resolve(at, Tail(components))
         ELSE IF c = <<".", ".">>
              THEN Resolve(IF at = <<>> THEN at ELSE SubSeq(at, 1, Len(at) - 1),
                           Tail(components))
         ELSE Resolve(Append(at, c), Tail(components))

\* __create_folder_path: the directory of a location under base_path
FolderPath(top, location) ==
    Resolve(<<top>>, [i \in 1..Len(location) |-> Sanitize(location[i])])

\* mkdir(parents=True, exist_ok=True)
Mkdir(ds, path) == ds \cup {SubSeq(path, 1, k) : k \in 1..Len(path)}

FilePath(folder, document, ext) == [folder |-> folder, name |-> document, ext |-> ext]

\* json.dump: an object's member names are strings
KeyString(k) == IF k.t = "int" THEN ToString(k.n) ELSE k.s

\* the text json.dump writes for a dict, token by token
JsonDump(d) ==
    LET n == Len(d.items)
        inner == [i \in 1..(IF n = 0 THEN 0 ELSE 4 * n - 1) |->
                    LET item == d.items[(i + 3) \div 4] IN
                    CASE i % 4 = 1 -> KeyString(item[1])
                      [] i % 4 = 2 -> ":"
                      [] i % 4 = 3 -> item[2]
                      [] OTHER -> ","]
    IN  <<"{">> \o inner \o <<"}">>

\* whether a text is one JSON object
IsJsonObject(text) ==
    /\ Len(text) >= 2
    /\ text[1] = "{"
    /\ text[Len(text)] = "}"
    /\ Len(text) > 2 => (Len(text) - 2) % 4 = 3
    /\ \A i \in 2..(Len(text) - 1) :
        /\ (i - 1) % 4 = 2 => text[i] = ":"
        /\ (i - 1) % 4 = 0 => text[i] = ","
        /\ (i - 1) % 4 \in {1, 3} => text[i] \notin {"{", "}", ":", ","}

\* a dict with str keys, a repeated member name keeping its last value
RECURSIVE LoadMembers(_, _, _)
LoadMembers(text, j, acc) ==
    IF 4 * j - 2 > Len(text) - 1 THEN acc
    ELSE LET key == StrKey(text[4 * j - 2])
             val == text[4 * j]
             at == {i \in 1..Len(acc) : acc[i][1] = key}
         IN  IF at = {}
             THEN LoadMembers(text, j + 1, Append(acc, <<key, val>>))
             ELSE LoadMembers(text, j + 1,
                     [i \in 1..Len(acc) |->
                        IF i \in at THEN <<key, val>> ELSE acc[i]])

\* whether a text is a JSON value other than an object or an array
JsonLiterals == {"null", "true", "false", "0"}
IsJsonLiteral(text) == Len(text) = 1 /\ text[1] \in JsonLiterals

\* json.load / json.loads: the dict, or JSONDecodeError
JsonLoad(text) ==
    IF IsJsonObject(text)
    THEN [ok |-> TRUE, val |-> Dict(LoadMembers(text, 1, <<>>))]
    ELSE [ok |-> FALSE, val |-> EmptyRecord]

\* what a read gives back
None == [kind |-> "None", val |-> EmptyRecord, exc |-> "-"]
Value(v) == [kind |-> "value", val |-> v, exc |-> "-"]
Raises(e) == [kind |-> "raise", val |-> EmptyRecord, exc |-> e]

\* file.writelines: the lines one after another, nothing added
RECURSIVE WriteLines(_)
WriteLines(lines) ==
    IF lines = <<>> THEN <<>> ELSE Head(lines) \o WriteLines(Tail(lines))

\* the file a content goes to and the text written to it
OutputPath(folder, document, content) ==
    CASE content.type = "str" -> FilePath(folder, document, "html")
      [] content.type = "dict" -> FilePath(folder, document, "json")
      [] OTHER -> FilePath(folder, document, "txt")

Serialized(content) ==
    CASE content.type = "str" -> content.text
      [] content.type = "dict" -> JsonDump(content)
      [] OTHER -> WriteLines(content.lines)

\* FileHandler(top).write: the files and directories afterwards
Write(fs, ds, top, location, document, content) ==
    LET folder == FolderPath(top, location) IN
    [dirs |-> Mkdir(ds, folder),
     files |-> (OutputPath(folder, document, content) :> Serialized(content))
                    @@ fs]

\* the ways the file system can fail a write: mkdir fails, open fails, or
\* the file is opened, and so emptied, and the writing fails
Faults == {"mkdir", "open", "write"}

\* the locations whose writes are failed
FaultLocations == {ShortLocation, CourseLocation}

\* FileHandler(top).write when the file system fails it
WriteFault(fs, ds, top, location, document, content, fault) ==
    LET folder == FolderPath(top, location)
        path == OutputPath(folder, document, content)
    IN  CASE fault = "mkdir" -> [dirs |-> ds, files |-> fs, ret |-> Raises("OSError")]
          [] fault = "open" -> [dirs |-> Mkdir(ds, folder), files |-> fs, ret |-> None]
          [] OTHER -> [dirs |-> Mkdir(ds, folder),
                       files |-> (path :> <<>>) @@ fs, ret |-> None]

LocationPrintable(location) == Len(location) >= 2

\* FileHandler(top).read without fallback: open, print, json.load
ReadHere(fs, top, location, document) ==
    LET path == FilePath(FolderPath(top, location), document, "json") IN
    IF path \notin DOMAIN fs THEN None
    ELSE IF ~LocationPrintable(location) THEN Raises("IndexError")
    ELSE IF ~JsonLoad(fs[path]).ok THEN None
    ELSE Value(JsonLoad(fs[path]).val)

\* a test for a document that is there, for comparison
Present(v) == v.kind = "value"

\* `if not historic_data`: None and the empty dict are both false
Truthy(v) == v.kind = "value" /\ v.val.items # <<>>

\* whether file_path.open("r") finds the file
Found(fs, top, location, document) ==
    FilePath(FolderPath(top, location), document, "json") \in DOMAIN fs

FallbackTop == LegacyTop

\* FileHandler(top).read
Read(fs, top, location, document, fallback) ==
    LET here == ReadHere(fs, top, location, document) IN
    IF Found(fs, top, location, document) \/ ~fallback THEN here
    ELSE LET there == ReadHere(fs, FallbackTop, location, document) IN
         IF there.kind = "raise" THEN there
         ELSE IF Truthy(there) THEN there
         ELSE Value(EmptyRecord)

\* the directories a read leaves behind
ReadDirs(fs, ds, top, location, document, fallback) ==
    LET mine == Mkdir(ds, FolderPath(top, location)) IN
    IF fallback /\ ~Found(fs, top, location, document)
    THEN Mkdir(mine, FolderPath(FallbackTop, location))
    ELSE mine

NoOp ==
    [name |-> "none", top |-> DataTop, location |-> NoLocation, document |-> "-",
     content |-> EmptyRecord, fallback |-> FALSE, ret |-> None]

\* a FileHandler(top) writes a document
write(top, location, document, content) ==
    LET w == Write(files, dirs, top, location, document, content) IN
    /\ files' = w.files
    /\ dirs' = w.dirs
    /\ op' = [name |-> "write", top |-> top, location |-> location,
              document |-> document, content |-> content, fallback |-> FALSE,
              ret |-> None]
    /\ nops' = nops + 1
    /\ UNCHANGED <<fetchVars, crawlVars, searchVars, buildVars>>

\* a FileHandler(top) writes a document and the file system fails
write_fault(top, location, document, content, fault) ==
    LET w == WriteFault(files, dirs, top, location, document, content, fault) IN
    /\ files' = w.files
    /\ dirs' = w.dirs
    /\ op' = [name |-> "write_fault", top |-> top, location |-> location,
              document |-> document, content |-> content, fallback |-> FALSE,
              ret |-> w.ret]
    /\ nops' = nops + 1
    /\ UNCHANGED <<fetchVars, crawlVars, searchVars, buildVars>>

\* the FileHandler("data") reads a document
read(location, document, fallback) ==
    /\ dirs' = ReadDirs(files, dirs, DataTop, location, document, fallback)
    /\ op' = [name |-> "read", top |-> DataTop, location |-> location,
              document |-> document, content |-> EmptyRecord,
              fallback |-> fallback,
              ret |-> Read(files, DataTop, location, document, fallback)]
    /\ nops' = nops + 1
    /\ UNCHANGED files
    /\ UNCHANGED <<fetchVars, crawlVars, searchVars, buildVars>>

\* config.base_directory, the parent of every store
BaseDirectory == <<"t", "m", "p">>

\* the directories directly under a directory
Children(ds, root) ==
    {d \in ds : Len(d) = Len(root) + 1 /\ SubSeq(d, 1, Len(root)) = root}

\* the files directly under a directory, by the path of each
FilesIn(fs, root) ==
    {Append(root, <<path.name, ".", path.ext>>) :
        path \in {q \in DOMAIN fs : q.folder = root}}

\* a set in the order the file system lists it
RECURSIVE InOrder(_)
InOrder(S) ==
    IF S = {} THEN <<>>
    ELSE LET x == CHOOSE x \in S : TRUE IN <<x>> \o InOrder(S \ {x})

RECURSIVE Chain(_)
Chain(seqs) == IF seqs = <<>> THEN <<>> ELSE Head(seqs) \o Chain(Tail(seqs))

\* os.walk(top): root, dirs and files of the directory and, after it, of
\* every directory under it
RECURSIVE Walk(_, _, _)
Walk(fs, ds, root) ==
    LET entries == Children(ds, root) \cup FilesIn(fs, root)
        subdirs == InOrder({e \in entries : e \in ds})
    IN  << [root |-> root, dirs |-> subdirs,
            files |-> InOrder(entries \ ds)] >>
        \o Chain([i \in 1..Len(subdirs) |-> Walk(fs, ds, subdirs[i])])

\* __is_valid_dir
IsValidDir(ds, path) == path \in ds

\* os.path.join(root, dir_name).split(os.sep)[-5:]
LastFive(path) ==
    LET parts == BaseDirectory \o path
    IN  SubSeq(parts, IF Len(parts) > 5 THEN Len(parts) - 4 ELSE 1, Len(parts))

DepthFour(depth) == depth = 4

\* `if depth == 3 and dirs`
DepthWanted(depth) == depth = 3

\* FileHandler(top).cached_courses after __create_folder_path
CachedCourses(fs, ds, top, location) ==
    LET folder_path == FolderPath(top, location)
        walked == Walk(fs, Mkdir(ds, folder_path), folder_path)
        found(w) ==
            IF DepthWanted(Len(w.root) - Len(folder_path)) /\ w.dirs # <<>>
            THEN [i \in 1..Len(SelectSeq(w.dirs, LAMBDA d : IsValidDir(ds, d))) |->
                    LastFive(SelectSeq(w.dirs, LAMBDA d : IsValidDir(ds, d))[i])]
            ELSE <<>>
    IN  Chain([i \in 1..Len(walked) |-> found(walked[i])])

\* str.splitlines on the text of a file
RECURSIVE SplitLines(_)
SplitLines(text) ==
    IF text = <<>> THEN <<>>
    ELSE LET ends == {i \in 1..Len(text) : text[i] = "\n"}
             cut == IF ends = {} THEN Len(text) + 1
                    ELSE CHOOSE i \in ends : \A j \in ends : i <= j
         IN  <<SubSeq(text, 1, cut - 1)>>
                \o SplitLines(SubSeq(text, cut + 1, Len(text)))

\* FileHandler(top).read_list: the lines of the file of that very name
ReadList(fs, top, location, document) ==
    LET here == {path \in DOMAIN fs :
                    /\ path.folder = FolderPath(top, location)
                    /\ path.name \o "." \o path.ext = document}
    IN  IF here = {} THEN <<>>
        ELSE SplitLines(fs[CHOOSE path \in here : TRUE])

\* the FileHandler("data") reads a list
read_list(location, document) ==
    /\ dirs' = Mkdir(dirs, FolderPath(DataTop, location))
    /\ op' = [name |-> "read_list", top |-> DataTop, location |-> location,
              document |-> document, content |-> EmptyRecord,
              fallback |-> FALSE,
              ret |-> Value(List(ReadList(files, DataTop, location, document)))]
    /\ nops' = nops + 1
    /\ UNCHANGED files
    /\ UNCHANGED <<fetchVars, crawlVars, searchVars, buildVars>>

\* the FileHandler("data") lists the cached courses
cached_courses(location) ==
    /\ dirs' = Mkdir(dirs, FolderPath(DataTop, location))
    /\ op' = [name |-> "cached_courses", top |-> DataTop, location |-> location,
              document |-> "-", content |-> EmptyRecord, fallback |-> FALSE,
              ret |-> Value(List(CachedCourses(files, dirs, DataTop, location)))]
    /\ nops' = nops + 1
    /\ UNCHANGED files
    /\ UNCHANGED <<fetchVars, crawlVars, searchVars, buildVars>>

StoreIdle ==
    /\ files = <<>>
    /\ dirs = {<<DataTop>>}
    /\ op = NoOp
    /\ nops = 0

(***************************************************************************)
(* The acquisition of the listed courses: acquire_courses_from_list.py,    *)
(* CourseAcquirer and HistoricGrades of v2/acquirers, with the JSON        *)
(* methods of the fetch client.                                            *)
(***************************************************************************)
Ids == {"c1", "c2"}

\* the lines of ucas_ids.txt: a bare id, or the address of a course page
UcasIds == << <<"c1">>, <<"http", "/", "courses", "/", "c2", "?", "y">> >>

\* str.split(sep)[-1] and str.split(sep)[0]
AfterLast(text, sep) ==
    LET at == {i \in 1..Len(text) : text[i] = sep} IN
    IF at = {} THEN text
    ELSE SubSeq(text, (CHOOSE i \in at : \A j \in at : j <= i) + 1, Len(text))

BeforeFirst(text, sep) ==
    LET at == {i \in 1..Len(text) : text[i] = sep} IN
    IF at = {} THEN text
    ELSE SubSeq(text, 1, (CHOOSE i \in at : \A j \in at : i <= j) - 1)

\* CourseIdParser.parse
Parse(unparsed_id) ==
    IF unparsed_id[1] = "http"
    THEN BeforeFirst(AfterLast(unparsed_id, "/"), "?")[1]
    ELSE unparsed_id[1]

\* config.predicted_grades.split(",")
PredictedGrades == <<"ABC", "DEF">>

\* the settings of PREDICTED_GRADES a run is made under
GradeLists == {<<"ABC">>, PredictedGrades}

Range(seq) == {seq[i] : i \in 1..Len(seq)}

AcademicYear == "2026"

DetailsUrl(id) == "courses?coursePrimaryId=" \o id
HistoricUrl(id) == "historic-grades-api/loggedOut/" \o id
LoggedInEndpoint == "historic-grades-api/loggedIn"

ConfirmationRatePayload(id, grade) == [courseIds |-> id, grade |-> grade]

\* dict operations: key in d, d.get(key, default), d[key] = val
HasKey(d, key) == \E i \in 1..Len(d.items) : d.items[i][1] = StrKey(key)

Get(d, key, default) ==
    IF HasKey(d, key)
    THEN d.items[CHOOSE i \in 1..Len(d.items) : d.items[i][1] = StrKey(key)][2]
    ELSE default

SetItem(d, key, val) ==
    IF HasKey(d, key)
    THEN Dict([i \in 1..Len(d.items) |->
                IF d.items[i][1] = StrKey(key) THEN <<StrKey(key), val>>
                ELSE d.items[i]])
    ELSE Dict(Append(d.items, <<StrKey(key), val>>))

\* the catalogue: the details the site holds for a course
DetailsOf(id) ==
    Dict(<< <<StrKey("providerSort"), "P1">>,
            <<StrKey("courseTitle"), IF id = "c1" THEN "T1" ELSE "A/B">>,
            <<StrKey("qualification"), "BSc">> >>)

\* the statistics source: the historic grades of a course, if it has any;
\* for an unrated course it has the grades but refuses the confirmation
\* rates
HistoricKinds == {"grades", "empty", "missing", "garbled", "null", "unrated"}

\* a body that is no JSON text, and one that is the JSON value null
GarbledBody == <<"<", "h", "t", "m", "l", ">">>
NullBody == <<"null">>

GradesOf(id) ==
    Dict(<< <<StrKey("mostCommonGrade"), "ABB">>,
            <<StrKey("minimumGrade"), "BBB">>,
            <<StrKey("maximumGrade"), "AAA">> >>)

\* the confirmation rate for a predicted grade: "[]" is an empty results
\* list, anything else a list whose first result has that rate
EmptyList == "[]"
RateOf(id, grade) == IF grade = "ABC" THEN "0.5" ELSE EmptyList

PageUrl(number) == "coursedisplay/results/courses?pageNumber=" \o ToString(number)
CourseUrl(id) == "coursedisplay/courses/" \o id

\* the result pages the site may hold: each page lists courses; a page
\* past the last one is not found
Catalogues ==
    {<< <<"c1", "c2">>, <<>> >>,
     << <<"c1">>, <<"c2">>, <<>> >>,
     << <<"c1">>, <<>>, <<"c2">> >>,
     << <<"c1">>, <<"c1", "c2">>, <<>> >>,
     << <<"c1", "c2">> >>,
     << <<>>, <<"c1">> >>}

\* the markup of a result page: one article per course listed
RECURSIVE PageBody(_)
PageBody(listed) ==
    IF listed = <<>> THEN <<"<app-courses-view>">>
    ELSE PageBody(SubSeq(listed, 1, Len(listed) - 1))
            \o <<"<article>", Last(listed)>>

\* the markup of a course page
CourseBody(id) == <<"<dd>", id>>

Answer(status, body) ==
    [kind |-> "response", status |-> status, body |-> body, exc |-> "-"]

\* what the site answers to a request
Served(c) ==
    IF c.verb = "GET" /\ \E id \in Ids : c.uri = DetailsUrl(id)
    THEN Answer(200, JsonDump(DetailsOf(CHOOSE id \in Ids : c.uri = DetailsUrl(id))))
    ELSE IF c.verb = "GET" /\ \E id \in Ids : c.uri = HistoricUrl(id)
    THEN LET id == CHOOSE id \in Ids : c.uri = HistoricUrl(id) IN
         CASE source[id] \in {"grades", "unrated"} ->
                    Answer(200, JsonDump(GradesOf(id)))
           [] source[id] = "empty" -> Answer(200, JsonDump(EmptyRecord))
           [] source[id] = "garbled" -> Answer(200, GarbledBody)
           [] source[id] = "null" -> Answer(200, NullBody)
           [] OTHER -> Answer(404, EmptyBody)
    ELSE IF c.verb = "POST" /\ c.uri = LoggedInEndpoint
            /\ c.payload.courseIds \in Ids
    THEN IF source[c.payload.courseIds] = "unrated" THEN Answer(500, EmptyBody)
         ELSE Answer(200, JsonDump(Dict(<< <<StrKey("results"),
                        RateOf(c.payload.courseIds, c.payload.grade)>> >>)))
    ELSE IF c.verb = "GET" /\ \E n \in 1..Len(catalogue) : c.uri = PageUrl(n)
    THEN Answer(200, PageBody(catalogue[CHOOSE n \in 1..Len(catalogue) :
                                            c.uri = PageUrl(n)]))
    ELSE IF c.verb = "GET" /\ \E id \in Ids : c.uri = CourseUrl(id)
    THEN Answer(200, CourseBody(CHOOSE id \in Ids : c.uri = CourseUrl(id)))
    ELSE Answer(404, EmptyBody)

\* what one call of the HTTP client can do during the acquisition
CrawlOutcomes ==
    {Served(call),
     [kind |-> "exc", status |-> 0, body |-> EmptyBody, exc |-> "ReadTimeout"]}

\* dict(json.loads(response)): the dict of a JSON object, TypeError for a
\* JSON value that dict() does not take, the empty dict on JSONDecodeError
LoadsDict(response) ==
    IF JsonLoad(response).ok THEN Value(JsonLoad(response).val)
    ELSE IF IsJsonLiteral(response) THEN Raises("TypeError")
    ELSE Value(EmptyRecord)

\* Fetcher.fetch_json on what fetch gave
FetchJson(res) ==
    IF res.kind = "raise" THEN Raises(res.exc)
    ELSE IF res.kind = "int" THEN Raises("HttpError")
    ELSE IF res.bytes = <<>> THEN Value(EmptyRecord)
    ELSE LoadsDict(res.bytes)

NoResults == Dict(<< <<StrKey("results"), EmptyList>> >>)

\* HistoricGrades.confirmation_rate on what post_with_rate_limit gave
ConfirmationRate(res) ==
    IF res.kind = "raise" THEN Raises(res.exc)
    ELSE IF res.kind = "int" \/ res.bytes = <<>> THEN Value(NoResults)
    ELSE IF JsonLoad(res.bytes).ok THEN Value(JsonLoad(res.bytes).val)
    ELSE IF IsJsonLiteral(res.bytes) THEN Raises("TypeError")
    ELSE Value(NoResults)

\* Course()
NoCourse ==
    [ucas_id |-> "", provider_sort |-> "", title |-> "", qualification |-> "",
     most_common_grade |-> "", minimum_grade |-> "", maximum_grade |-> ""]

DetailKeys == {"providerSort", "courseTitle", "qualification"}

\* the basic details of __fetch_basic_details: a subscript of a missing
\* key raises KeyError
BasicDetails(d, id) ==
    IF \E k \in DetailKeys : ~HasKey(d, k)
    THEN [raised |-> TRUE, course |-> NoCourse]
    ELSE [raised |-> FALSE,
          course |-> [NoCourse EXCEPT
                        !.ucas_id = id,
                        !.provider_sort = Get(d, "providerSort", ""),
                        !.title = Get(d, "courseTitle", ""),
                        !.qualification = Get(d, "qualification", "")]]

HistoricFields(c, historic_data) ==
    [c EXCEPT !.most_common_grade = Get(historic_data, "mostCommonGrade", ""),
              !.minimum_grade = Get(historic_data, "minimumGrade", ""),
              !.maximum_grade = Get(historic_data, "maximumGrade", "")]

\* the characters of the strings that become path segments
Chars ==
    [s \in {"providers", "P1", "T1", "A/B", "BSc", AcademicYear, ""} |->
        CASE s = "providers" -> <<"p", "r", "o", "v", "i", "d", "e", "r", "s">>
          [] s = "P1" -> <<"P", "1">>
          [] s = "T1" -> <<"T", "1">>
          [] s = "A/B" -> <<"A", "/", "B">>
          [] s = "BSc" -> <<"B", "S", "c">>
          [] s = AcademicYear -> <<"2", "0", "2", "6">>
          [] OTHER -> <<>>]

\* CourseAcquirer.__file_location
FileLocation(c) ==
    <<Chars["providers"], Chars[c.provider_sort], Chars[c.title],
      Chars[c.qualification], Chars[AcademicYear]>>

CurrentId == Parse(UcasIds[idx])

Sent(verb, uri, payload) ==
    [net EXCEPT ![run] = Append(@, [verb |-> verb, uri |-> uri,
                                     payload |-> payload])]

Captured(reqs) == [captured EXCEPT ![run] = @ \cup reqs]

\* an exception leaves process() and ends the script
Abort ==
    /\ step' = "aborted"
    /\ UNCHANGED <<source, grades, run, idx, course, rates, gi, records, net, captured>>
    /\ UNCHANGED storeVars

\* __fetch_basic_details up to fetch_json's request
fetch_basic_details ==
    /\ step = "details"
    /\ UNCHANGED <<searchVars, buildVars>>
    /\ Request("GET", DetailsUrl(CurrentId), NoPayload)
    /\ net' = Sent("GET", DetailsUrl(CurrentId), NoPayload)
    /\ step' = "details_wait"
    /\ UNCHANGED <<source, grades, run, idx, details, course, rates, gi, records,
                   captured>>
    /\ UNCHANGED storeVars

\* the rest of __fetch_basic_details
basic_details_return ==
    /\ step = "details_wait"
    /\ UNCHANGED <<searchVars, buildVars>>
    /\ Resume
    /\ LET j == FetchJson(result) IN
       IF j.kind = "raise"
       THEN Abort /\ UNCHANGED details
       ELSE LET b == BasicDetails(j.val, CurrentId) IN
            /\ details' = j.val
            /\ IF b.raised
               THEN Abort
               ELSE LET w == Write(files, dirs, DataTop, FileLocation(b.course),
                                   "course", j.val) IN
                    /\ course' = b.course
                    /\ files' = w.files
                    /\ dirs' = w.dirs
                    /\ captured' = Captured({[verb |-> call.verb,
                                              uri |-> call.uri,
                                              payload |-> call.payload]})
                    /\ step' = "historic"
                    /\ UNCHANGED <<source, grades, run, idx, rates, gi, records, net>>
                    /\ UNCHANGED <<op, nops>>

\* __fetch_historic_data up to the request, or to its end when the cache
\* holds the document
fetch_historic_data ==
    /\ step = "historic"
    /\ UNCHANGED <<searchVars, buildVars>>
    /\ LET loc == FileLocation(course)
           historic_data == ReadHere(files, DataTop, loc, "historic")
       IN  /\ dirs' = Mkdir(dirs, FolderPath(DataTop, loc))
           /\ IF Truthy(historic_data)
              THEN /\ course' = HistoricFields(course, historic_data.val)
                   /\ step' = "rates"
                   /\ UNCHANGED net
                   /\ UNCHANGED fetchVars
              ELSE /\ WithRateLimit("GET", HistoricUrl(CurrentId), NoPayload,
                                    "universal")
                   /\ net' = Sent("GET", HistoricUrl(CurrentId), NoPayload)
                   /\ step' = "historic_wait"
                   /\ UNCHANGED course
    /\ UNCHANGED <<source, grades, run, idx, details, rates, gi, records, captured>>
    /\ UNCHANGED <<files, op, nops>>

\* the rest of __fetch_historic_data
historic_grades_return ==
    /\ step = "historic_wait"
    /\ UNCHANGED <<searchVars, buildVars>>
    /\ Resume
    /\ UNCHANGED details
    /\ LET j == FetchJson(result) IN
       IF j.kind = "raise"
       THEN Abort
       ELSE LET w == Write(files, dirs, DataTop, FileLocation(course),
                           "historic", j.val) IN
            /\ files' = w.files
            /\ dirs' = w.dirs
            /\ course' = HistoricFields(course, j.val)
            /\ captured' = Captured({[verb |-> call.verb, uri |-> call.uri,
                                      payload |-> call.payload]})
            /\ step' = "rates"
            /\ UNCHANGED <<source, grades, run, idx, rates, gi, records, net>>
            /\ UNCHANGED <<op, nops>>

\* __fetch_confirmation_rates up to its loop
fetch_confirmation_rates ==
    /\ step = "rates"
    /\ UNCHANGED <<searchVars, buildVars>>
    /\ LET loc == FileLocation(course)
           cached == ReadHere(files, DataTop, loc, "confirmation_rates")
       IN  /\ dirs' = Mkdir(dirs, FolderPath(DataTop, loc))
           /\ rates' = IF Truthy(cached) THEN cached.val ELSE EmptyRecord
    /\ gi' = 1
    /\ step' = "rates_loop"
    /\ UNCHANGED <<source, grades, run, idx, details, course, records, net, captured>>
    /\ UNCHANGED <<files, op, nops>>
    /\ UNCHANGED fetchVars

MissingAll(rs, from) == from..Len(grades)

\* the positions from a given one on whose grade the mapping lacks
Missing(rs, from) == {k \in from..Len(grades) : ~HasKey(rs, grades[k])}

\* the loop over the predicted grades: on to the next grade the mapping
\* lacks and its request, or past the last grade to the write, the end of
\* process() and the script's next id
next_predicted_grade ==
    /\ step = "rates_loop"
    /\ UNCHANGED <<searchVars, buildVars>>
    /\ LET missing == Missing(rates, gi)
       IN  IF missing # {}
           THEN LET k == CHOOSE k \in missing : \A m \in missing : k <= m
                    payload == ConfirmationRatePayload(CurrentId,
                                                       grades[k])
                IN  /\ WithRateLimit("POST", LoggedInEndpoint, payload,
                                     "universal")
                    /\ net' = Sent("POST", LoggedInEndpoint, payload)
                    /\ gi' = k
                    /\ step' = "rates_wait"
                    /\ UNCHANGED <<source, grades, run, idx, details, course, rates,
                                   records, captured>>
                    /\ UNCHANGED storeVars
           ELSE LET confirmation_rates == SetItem(rates, "ucas_id", CurrentId)
                    w == Write(files, dirs, DataTop, FileLocation(course),
                               "confirmation_rates", confirmation_rates)
                IN  /\ rates' = confirmation_rates
                    /\ files' = w.files
                    /\ dirs' = w.dirs
                    /\ captured' = Captured({n \in Range(net[run]) :
                                    /\ n.verb = "POST"
                                    /\ n.payload.courseIds = CurrentId})
                    /\ records' = [records EXCEPT ![run] = Append(@, course)]
                    /\ idx' = idx + 1
                    /\ step' = IF idx < Len(UcasIds) THEN "details" ELSE "done"
                    /\ UNCHANGED <<source, grades, run, details, course, gi, net>>
                    /\ UNCHANGED <<op, nops>>
                    /\ UNCHANGED fetchVars

\* the body of the loop after the request
confirmation_rate_return ==
    /\ step = "rates_wait"
    /\ UNCHANGED <<searchVars, buildVars>>
    /\ Resume
    /\ UNCHANGED details
    /\ LET results == ConfirmationRate(result) IN
       IF results.kind = "raise" \/ ~HasKey(results.val, "results")
       THEN Abort
       ELSE LET listed == Get(results.val, "results", EmptyList)
                confirmation_rate == IF listed # EmptyList THEN listed ELSE ""
            IN  /\ rates' = SetItem(rates, grades[gi], confirmation_rate)
                /\ gi' = gi + 1
                /\ step' = "rates_loop"
                /\ UNCHANGED <<source, grades, run, idx, course, records, net, captured>>
                /\ UNCHANGED storeVars

\* the script is run again: a new process over the same output directory
rerun(predicted_grades) ==
    /\ step \in {"done", "aborted"}
    /\ UNCHANGED <<searchVars, buildVars>>
    /\ grades' = predicted_grades
    /\ run < MaxRuns
    /\ run' = run + 1
    /\ idx' = 1
    /\ step' = "details"
    /\ details' = EmptyRecord
    /\ course' = NoCourse
    /\ rates' = EmptyRecord
    /\ gi' = 1
    /\ rate_limits' = [c \in DOMAIN rate_limits |->
                        [rate_limits[c] EXCEPT !.counter = 0]]
    /\ client' = 1
    /\ acquired' = [c \in Channels |-> <<>>]
    /\ UNCHANGED <<max_retries, pc, call, attempt, result, printed, ledger,
                   trace, sleeps, ledger_mark, nreq>>
    /\ UNCHANGED <<source, records, net, captured>>
    /\ UNCHANGED storeVars

CrawlIdle ==
    /\ source = [id \in Ids |-> "grades"]
    /\ grades = PredictedGrades
    /\ run = 1
    /\ idx = 1
    /\ step = "off"
    /\ details = EmptyRecord
    /\ course = NoCourse
    /\ rates = EmptyRecord
    /\ gi = 1
    /\ records = [r \in 1..MaxRuns |-> <<>>]
    /\ net = [r \in 1..MaxRuns |-> <<>>]
    /\ captured = [r \in 1..MaxRuns |-> {}]

(***************************************************************************)
(* The catalogue search: SearchService of v1/search.py, which walks the    *)
(* result pages and processes every course listed on them.                 *)
(***************************************************************************)
\* html.select("app-courses-view app-course article"): the articles of a
\* page, each known by the course it links to
Select(body) ==
    LET at == {i \in 1..Len(body) : i > 1 /\ body[i - 1] = "<article>"}
        nth(k) == CHOOSE i \in at : Cardinality({j \in at : j < i}) = k - 1
    IN  [k \in 1..Cardinality(at) |-> body[nth(k)]]

\* _extract_basic_info
ExtractBasicInfo(article) ==
    [ucas_id |-> article,
     provider |-> Get(DetailsOf(article), "providerSort", ""),
     title |-> Get(DetailsOf(article), "courseTitle", ""),
     qualification |-> Get(DetailsOf(article), "qualification", ""),
     url |-> CourseUrl(article)]

\* _get_location_info
GetLocationInfo(course_info) ==
    <<Chars["providers"], Chars[course_info.provider], Chars[course_info.title],
      Chars[course_info.qualification], Chars[AcademicYear]>>

\* Course._fetch_and_parse and the extraction: the course code of the
\* page, the default when the page is a status or empty
ExtraDetails(res) ==
    IF res.kind = "int" \/ Len(res.bytes) < 2 THEN ""
    ELSE res.bytes[2]

\* HistoricGrades._process_response
V1ProcessResponse(res) ==
    IF res.kind = "int" THEN Value(EmptyRecord)
    ELSE LoadsDict(res.bytes)

\* HistoricGrades.historic_grades and confirmation_rate after the request:
\* every exception of the fetch or of the decoding is caught
V1HistoricGrades(res) ==
    IF res.kind = "raise" THEN EmptyRecord
    ELSE IF V1ProcessResponse(res).kind = "raise" THEN EmptyRecord
    ELSE V1ProcessResponse(res).val

\* the historic document _get_historic_data makes of the results
HistoricData(results) ==
    Dict(<< <<StrKey("most-common-grade"), Get(results, "mostCommonGrade", "")>>,
            <<StrKey("minimum-grade"), Get(results, "minimumGrade", "")>>,
            <<StrKey("maximum-grade"), Get(results, "maximumGrade", "")>> >>)

\* _merge_course_data
MergeCourseData(basic_info, extra_details, historic_data) ==
    [ucas_id |-> basic_info.ucas_id,
     title |-> basic_info.title,
     course_code |-> extra_details,
     most_common_grade |-> Get(historic_data, "most-common-grade", "")]

\* Output.write_csv: the header line, then one line per row
WriteCsv(fs, top, name, rows) ==
    (FilePath(<<top>>, name, "csv")
        :> (<<"ucas_id">> \o [i \in 1..Len(rows) |-> rows[i].ucas_id])) @@ fs

\* `if not new_courses: break`
LastPageIfShort(found) == Len(found) < 2

LastPage(found) == found = <<>>

\* a reordering collection, for comparison: the new page goes in front
ExtendFront(list, more) == more \o list

\* `courses.extend(new_courses)`
Extend(list, more) == list \o more

ThisArticle == articles[idx]

\* the variables the search does not use
SearchUnused == <<source, run, details, records, captured, buildVars>>

\* an exception leaves search_courses through its finally
SearchAbort ==
    /\ step' = "aborted"
    /\ closed' = TRUE
    /\ UNCHANGED <<catalogue, page, articles, new_courses, courses>>
    /\ UNCHANGED <<grades, idx, course, rates, gi, net>>
    /\ UNCHANGED storeVars

\* the top of the loop of _collect_course_data: _fetch_page
fetch_page ==
    /\ step = "page"
    /\ page' = page + 1
    /\ Request("GET", PageUrl(page + 1), NoPayload)
    /\ net' = Sent("GET", PageUrl(page + 1), NoPayload)
    /\ step' = "page_wait"
    /\ UNCHANGED <<catalogue, articles, new_courses, courses, closed>>
    /\ UNCHANGED <<grades, idx, course, rates, gi>>
    /\ UNCHANGED SearchUnused
    /\ UNCHANGED storeVars

\* _process_page up to its loop over the articles
process_page ==
    /\ step = "page_wait"
    /\ Resume
    /\ UNCHANGED SearchUnused
    /\ IF result.kind = "raise"
       THEN SearchAbort
       ELSE /\ articles' = IF result.kind = "int" THEN <<>>
                           ELSE Select(result.bytes)
            /\ new_courses' = <<>>
            /\ idx' = 1
            /\ step' = "article"
            /\ UNCHANGED <<catalogue, page, courses, closed>>
            /\ UNCHANGED <<grades, course, rates, gi, net>>
            /\ UNCHANGED storeVars

\* the loop over the articles: _process_course up to the request of
\* Course.process, or, past the last article, the end of _process_page and
\* the rest of the body of the loop over the pages
next_article ==
    /\ step = "article"
    /\ UNCHANGED SearchUnused
    /\ IF idx <= Len(articles)
       THEN /\ Request("GET", ExtractBasicInfo(ThisArticle).url, NoPayload)
            /\ net' = Sent("GET", ExtractBasicInfo(ThisArticle).url, NoPayload)
            /\ step' = "course_wait"
            /\ UNCHANGED <<catalogue, page, articles, new_courses, courses, closed>>
            /\ UNCHANGED <<grades, idx, course, rates, gi>>
            /\ UNCHANGED storeVars
       ELSE /\ IF LastPage(new_courses)
               THEN /\ files' = WriteCsv(files, DataTop, "courses", courses)
                    /\ closed' = TRUE
                    /\ step' = "done"
                    /\ UNCHANGED courses
               ELSE /\ courses' = Extend(courses, new_courses)
                    /\ step' = "page"
                    /\ UNCHANGED <<files, closed>>
            /\ UNCHANGED <<catalogue, page, articles, new_courses>>
            /\ UNCHANGED <<grades, idx, course, rates, gi, net>>
            /\ UNCHANGED <<dirs, op, nops>>
            /\ UNCHANGED fetchVars

\* an exception of _process_course is caught in _process_page: on to the
\* next article
SkipArticle ==
    /\ idx' = idx + 1
    /\ step' = "article"
    /\ UNCHANGED <<catalogue, page, articles, new_courses, courses, closed>>
    /\ UNCHANGED <<grades, course, rates, gi, net>>
    /\ UNCHANGED storeVars

\* Course.process after its request
course_process_return ==
    /\ step = "course_wait"
    /\ Resume
    /\ UNCHANGED SearchUnused
    /\ IF result.kind = "raise"
       THEN SkipArticle
       ELSE /\ course' = MergeCourseData(ExtractBasicInfo(ThisArticle),
                                         ExtraDetails(result), EmptyRecord)
            /\ step' = "historic_data"
            /\ UNCHANGED <<catalogue, page, articles, new_courses, courses, closed>>
            /\ UNCHANGED <<grades, idx, rates, gi, net>>
            /\ UNCHANGED storeVars

\* _get_historic_data up to the request, or to its end when the cache
\* holds the document
get_historic_data ==
    /\ step = "historic_data"
    /\ UNCHANGED SearchUnused
    /\ LET location == GetLocationInfo(ExtractBasicInfo(ThisArticle))
           historic_data == ReadHere(files, DataTop, location, "historic")
       IN  /\ dirs' = Mkdir(dirs, FolderPath(DataTop, location))
           /\ IF Truthy(historic_data)
              THEN /\ course' = [course EXCEPT !.most_common_grade =
                            Get(historic_data.val, "most-common-grade", "")]
                   /\ step' = "confirmation_rates"
                   /\ UNCHANGED net
                   /\ UNCHANGED fetchVars
              ELSE /\ WithRateLimit("GET", HistoricUrl(ThisArticle), NoPayload,
                                    "universal")
                   /\ net' = Sent("GET", HistoricUrl(ThisArticle), NoPayload)
                   /\ step' = "historic_data_wait"
                   /\ UNCHANGED course
    /\ UNCHANGED <<catalogue, page, articles, new_courses, courses, closed>>
    /\ UNCHANGED <<grades, idx, rates, gi>>
    /\ UNCHANGED <<files, op, nops>>

\* the rest of _get_historic_data
historic_data_return ==
    /\ step = "historic_data_wait"
    /\ Resume
    /\ UNCHANGED SearchUnused
    /\ LET historic_data == HistoricData(V1HistoricGrades(result))
           w == Write(files, dirs, DataTop,
                      GetLocationInfo(ExtractBasicInfo(ThisArticle)),
                      "historic", historic_data)
       IN  /\ files' = w.files
           /\ dirs' = w.dirs
           /\ course' = [course EXCEPT !.most_common_grade =
                            Get(historic_data, "most-common-grade", "")]
    /\ step' = "confirmation_rates"
    /\ UNCHANGED <<catalogue, page, articles, new_courses, courses, closed>>
    /\ UNCHANGED <<grades, idx, rates, gi, net>>
    /\ UNCHANGED <<op, nops>>

\* _get_confirmation_rates up to its loop
get_confirmation_rates ==
    /\ step = "confirmation_rates"
    /\ UNCHANGED SearchUnused
    /\ LET location == GetLocationInfo(ExtractBasicInfo(ThisArticle))
           cached == ReadHere(files, DataTop, location, "confirmation-rates")
       IN  /\ dirs' = Mkdir(dirs, FolderPath(DataTop, location))
           /\ rates' = IF Truthy(cached) THEN cached.val ELSE EmptyRecord
    /\ gi' = 1
    /\ step' = "confirmation_rates_loop"
    /\ UNCHANGED <<catalogue, page, articles, new_courses, courses, closed>>
    /\ UNCHANGED <<grades, idx, course, net>>
    /\ UNCHANGED <<files, op, nops>>
    /\ UNCHANGED fetchVars

\* its loop over the predicted grades: the next grade the mapping lacks
\* and its request, or past the last grade the write, the end of
\* _process_course and the rest of the body of the loop over the articles
next_confirmation_rate ==
    /\ step = "confirmation_rates_loop"
    /\ UNCHANGED SearchUnused
    /\ LET missing == Missing(rates, gi)
       IN  IF missing # {}
           THEN LET k == CHOOSE k \in missing : \A m \in missing : k <= m
                    payload == ConfirmationRatePayload(ThisArticle, grades[k])
                IN  /\ WithRateLimit("POST", LoggedInEndpoint, payload,
                                     "universal")
                    /\ net' = Sent("POST", LoggedInEndpoint, payload)
                    /\ gi' = k
                    /\ step' = "confirmation_rate_wait"
                    /\ UNCHANGED <<catalogue, page, articles, new_courses,
                                   courses, closed>>
                    /\ UNCHANGED <<grades, idx, course, rates>>
                    /\ UNCHANGED storeVars
           ELSE LET confirmation_rates == SetItem(rates, "ucas_id", ThisArticle)
                    w == Write(files, dirs, DataTop,
                               GetLocationInfo(ExtractBasicInfo(ThisArticle)),
                               "confirmation-rates", confirmation_rates)
                IN  /\ rates' = confirmation_rates
                    /\ files' = w.files
                    /\ dirs' = w.dirs
                    /\ new_courses' = Append(new_courses, course)
                    /\ idx' = idx + 1
                    /\ step' = "article"
                    /\ UNCHANGED <<catalogue, page, articles, courses, closed>>
                    /\ UNCHANGED <<grades, course, gi, net>>
                    /\ UNCHANGED <<op, nops>>
                    /\ UNCHANGED fetchVars

\* the body of that loop after the request
confirmation_rate_got ==
    /\ step = "confirmation_rate_wait"
    /\ Resume
    /\ UNCHANGED SearchUnused
    /\ rates' = SetItem(rates, grades[gi],
                        Get(V1HistoricGrades(result), "confirmationRate", ""))
    /\ gi' = gi + 1
    /\ step' = "confirmation_rates_loop"
    /\ UNCHANGED <<catalogue, page, articles, new_courses, courses, closed>>
    /\ UNCHANGED <<grades, idx, course, net>>
    /\ UNCHANGED storeVars

SearchIdle ==
    /\ catalogue = <<>>
    /\ page = 0
    /\ articles = <<>>
    /\ new_courses = <<>>
    /\ courses = <<>>
    /\ closed = FALSE

(***************************************************************************)
(* The id search: SearchService of v3/acquirers/course_search.py, which    *)
(* walks the result pages and keeps the id of every course listed, and     *)
(* the page loop of Search.course_search of search.py.                     *)
(***************************************************************************)
\* f"{course_html.get('id')}\n"
IdLine(id) == IF id = "c1" THEN <<"c", "1", "\n">> ELSE <<"c", "2", "\n">>

\* __process_page: no id for a status, else the id line of every article
ProcessPage(response) ==
    IF response.kind = "int" THEN <<>>
    ELSE [k \in 1..Len(Select(response.bytes)) |->
            IdLine(Select(response.bytes)[k])]

\* the store of Output(study_year)
YearTop == <<"2", "0", "2", "5">>

\* the catalogues given to course_search: no page of theirs that it
\* requests lists a course
UnlistedCatalogues == {<<>>, << <<>>, <<"c1">> >>}

\* the variables the id search does not use
CollectUnused ==
    <<source, grades, run, idx, details, course, rates, gi, records, captured,
      buildVars>>

\* the top of the loop of __collect_course_ids: __fetch_page
collect_course_ids ==
    /\ step = "ids_page"
    /\ page' = page + 1
    /\ Request("GET", PageUrl(page + 1), NoPayload)
    /\ net' = Sent("GET", PageUrl(page + 1), NoPayload)
    /\ step' = "ids_page_wait"
    /\ UNCHANGED <<catalogue, articles, new_courses, courses, closed>>
    /\ UNCHANGED CollectUnused
    /\ UNCHANGED storeVars

\* the rest of the body of that loop and, after the last page, the rest of
\* search_courses: __write_output, then the finally clause; an exception of
\* the fetch leaves through the finally clause
search_courses ==
    /\ step = "ids_page_wait"
    /\ Resume
    /\ UNCHANGED CollectUnused
    /\ UNCHANGED <<catalogue, page, articles, net>>
    /\ IF result.kind = "raise"
       THEN /\ step' = "aborted"
            /\ closed' = TRUE
            /\ UNCHANGED <<new_courses, courses>>
            /\ UNCHANGED storeVars
       ELSE /\ new_courses' = ProcessPage(result)
            /\ IF LastPage(ProcessPage(result))
               THEN LET w == Write(files, dirs, DataTop, NoLocation,
                                   "course-ids", List(courses))
                    IN  /\ files' = w.files
                        /\ dirs' = w.dirs
                        /\ closed' = TRUE
                        /\ step' = "done"
                        /\ UNCHANGED courses
                        /\ UNCHANGED <<op, nops>>
               ELSE /\ courses' = Extend(courses, ProcessPage(result))
                    /\ step' = "ids_page"
                    /\ UNCHANGED closed
                    /\ UNCHANGED storeVars

\* Search.course_search up to the return of __fetch_page: Output(study_year)
\* makes its store, then the top of the loop
course_search ==
    /\ step = "legacy_page"
    /\ dirs' = Mkdir(dirs, <<YearTop>>)
    /\ page' = page + 1
    /\ Request("GET", PageUrl(page + 1), NoPayload)
    /\ net' = Sent("GET", PageUrl(page + 1), NoPayload)
    /\ step' = "legacy_page_wait"
    /\ UNCHANGED <<catalogue, articles, new_courses, courses, closed>>
    /\ UNCHANGED CollectUnused
    /\ UNCHANGED <<files, op, nops>>

\* the rest of course_search for a page that lists no course: write_csv,
\* then fetcher.close(); an exception of the fetch leaves course_search,
\* which has no handler for it
course_search_return ==
    /\ step = "legacy_page_wait"
    /\ Resume
    /\ UNCHANGED CollectUnused
    /\ UNCHANGED <<catalogue, page, new_courses, courses, net>>
    /\ UNCHANGED <<dirs, op, nops>>
    /\ IF result.kind = "raise"
       THEN /\ step' = "aborted"
            /\ UNCHANGED <<articles, closed, files>>
       ELSE /\ articles' = IF result.kind = "int" THEN <<>>
                           ELSE Select(result.bytes)
            /\ articles' = <<>>
            /\ files' = WriteCsv(files, YearTop, "physics", courses)
            /\ closed' = TRUE
            /\ step' = "done"

(***************************************************************************)
(* The record builders: CourseBuilder.from_file_cache of v2/builders and   *)
(* of v3/builders, over the courses the cache holds.                       *)
(***************************************************************************)
Builders == {"v2", "v3"}

\* the name `course` before its first assignment
Unbound == [NoCourse EXCEPT !.ucas_id = "<unbound>"]

\* the location the acquirer caches a course at
LocationOfId(id) == FileLocation(BasicDetails(DetailsOf(id), id).course)

\* what the cache can hold as the details of a course: nothing, the whole
\* document, the document without the id, the id alone, or a file a failed
\* write has emptied
CourseKinds == {"absent", "full", "no id", "id only", "truncated"}

\* and as its historic grades: nothing, a first result with the three
\* grades, no result, or a first result with one grade only
HistoricShapes == {"absent", "full", "empty", "partial"}

FirstResult == "[{}]"

CachedDetails(id, kind) ==
    CASE kind = "full" -> SetItem(DetailsOf(id), "id", id)
      [] kind = "no id" -> DetailsOf(id)
      [] OTHER -> Dict(<< <<StrKey("id"), id>> >>)

CachedHistoric(id, shape) ==
    CASE shape = "full" -> SetItem(GradesOf(id), "results", FirstResult)
      [] shape = "empty" -> NoResults
      [] OTHER -> Dict(<< <<StrKey("results"), FirstResult>>,
                          <<StrKey("minimumGrade"), "BBB">> >>)

CachedRatesOf(id) ==
    Dict(<< <<StrKey("ABC"), RateOf(id, "ABC")>>, <<StrKey("ucas_id"), id>> >>)

\* the state of the cache of one course
Holdings == [course : CourseKinds, historic : HistoricShapes, rates : BOOLEAN]

\* the output directory after the writes that leave a course so cached
Put(w, location, document, kind, content) ==
    CASE kind = "absent" ->
            [dirs |-> Mkdir(w.dirs, FolderPath(DataTop, location)), files |-> w.files]
      [] kind = "truncated" ->
            LET f == WriteFault(w.files, w.dirs, DataTop, location, document,
                                content, "write")
            IN  [dirs |-> f.dirs, files |-> f.files]
      [] OTHER -> Write(w.files, w.dirs, DataTop, location, document, content)

Stored(w, id, held) ==
    LET a == Put(w, LocationOfId(id), "course", held.course,
                 CachedDetails(id, held.course))
        b == Put(a, LocationOfId(id), "historic", held.historic,
                 CachedHistoric(id, held.historic))
    IN  Put(b, LocationOfId(id), "confirmation_rates",
            IF held.rates THEN "full" ELSE "absent", CachedRatesOf(id))

\* Course.add_ucas_course: every subscript of a missing key raises KeyError
AddUcasCourse(c, ucas_id, d) ==
    IF \E k \in DetailKeys : ~HasKey(d, k) THEN Raises("KeyError")
    ELSE Value([c EXCEPT !.ucas_id = ucas_id,
                         !.provider_sort = Get(d, "providerSort", ""),
                         !.title = Get(d, "courseTitle", ""),
                         !.qualification = Get(d, "qualification", "")])

GradeKeys == {"mostCommonGrade", "minimumGrade", "maximumGrade"}

\* Course.add_historic_grades
AddHistoricGrades(c, historic_grades) ==
    IF \E k \in GradeKeys : ~HasKey(historic_grades, k) THEN Raises("KeyError")
    ELSE Value(HistoricFields(c, historic_grades))

\* `historic_data and "results" in historic_data and len(...) > 0`
HasResults(historic_data) ==
    /\ Truthy(historic_data)
    /\ HasKey(historic_data.val, "results")
    /\ Get(historic_data.val, "results", EmptyList) # EmptyList

\* CourseFilter.exclude: a CourseFilter that was constructed holds the
\* DEFAULT_CRITERIA, which exclude nothing
Exclude(c) == FALSE

\* the body of the loop of the v3 from_file_cache up to the filter: the
\* course built, or the exception raised
V3Course(found, historic_data) ==
    LET withDetails ==
            IF ~Truthy(found) THEN Value(NoCourse)
            ELSE IF ~HasKey(found.val, "id") THEN Raises("KeyError")
            ELSE AddUcasCourse(NoCourse, Get(found.val, "id", ""), found.val)
    IN  IF found.kind = "raise" THEN found
        ELSE IF historic_data.kind = "raise" THEN historic_data
        ELSE IF withDetails.kind = "raise" THEN withDetails
        ELSE IF HasResults(historic_data)
             THEN AddHistoricGrades(withDetails.val, historic_data.val)
        ELSE withDetails

\* the same of the v2 from_file_cache: `course = Course()` is under
\* `if details:`, and the Course of v2 has no add_ucas_course
V2Course(bound, found, historic_data) ==
    IF found.kind = "raise" THEN found
    ELSE IF historic_data.kind = "raise" THEN historic_data
    ELSE IF Truthy(found)
    THEN IF ~HasKey(found.val, "id") THEN Raises("KeyError")
         ELSE Raises("AttributeError")
    ELSE IF bound = Unbound THEN Raises("UnboundLocalError")
    ELSE IF HasResults(historic_data) THEN Raises("AttributeError")
    ELSE Value(bound)

\* the names of the members of a dict, in order
Keys(d) == [i \in 1..Len(d.items) |-> KeyString(d.items[i][1])]

\* csv.DictWriter(file, headers).writerows: ValueError for a row with a
\* member that is no header; write_csv then writes the .err file instead
RatesCsv(fs, top, rows, headers) ==
    IF \E i \in 1..Len(rows) : ~(Range(Keys(rows[i])) \subseteq Range(headers))
    THEN (FilePath(<<top>>, "confirmation-rates", "err") :> <<"rows">>)
            @@ (FilePath(<<top>>, "confirmation-rates", "csv") :> headers) @@ fs
    ELSE (FilePath(<<top>>, "confirmation-rates", "csv")
            :> (headers \o Chain([i \in 1..Len(rows) |->
                    [j \in 1..Len(headers) |->
                        Get(rows[i], headers[j], "")]]))) @@ fs

\* list.sort(reverse=True) of the headers the cache can hold
HeaderRank == [k \in {"ABC", "DEF", "ucas_id"} |->
                CASE k = "ucas_id" -> 1 [] k = "DEF" -> 2 [] OTHER -> 3]

SortReverse(keys) ==
    LET S == Range(keys) IN
    [i \in 1..Cardinality(S) |->
        CHOOSE k \in S : Cardinality({x \in S : HeaderRank[x] < HeaderRank[k]}) = i - 1]

\* an exception leaves from_file_cache
BuildRaise(exc) ==
    /\ step' = "raised"
    /\ raised' = exc
    /\ UNCHANGED <<builder, course_locations, all_confirmation_rates>>
    /\ UNCHANGED <<idx, course, courses, files>>

\* from_file_cache up to its loop
from_file_cache ==
    /\ step = "off"
    /\ course_locations' = CachedCourses(files, dirs, DataTop, <<Chars["providers"]>>)
    /\ dirs' = Mkdir(dirs, FolderPath(DataTop, <<Chars["providers"]>>))
    /\ courses' = <<>>
    /\ all_confirmation_rates' = <<>>
    /\ idx' = 1
    /\ step' = "loop"
    /\ UNCHANGED <<builder, raised, course, files, op, nops>>
    /\ UNCHANGED fetchVars
    /\ UNCHANGED <<source, grades, run, details, rates, gi, records, net, captured>>
    /\ UNCHANGED <<catalogue, page, articles, new_courses, closed>>

\* one turn of the loop of from_file_cache
build_course ==
    /\ step = "loop"
    /\ idx <= Len(course_locations)
    /\ LET course_location == course_locations[idx]
           fallback == builder = "v3"
           read_details == Read(files, DataTop, course_location, "course", fallback)
           historic_data == Read(files, DataTop, course_location, "historic", fallback)
           rate == Read(files, DataTop, course_location, "confirmation_rates",
                        fallback)
           built == IF builder = "v3" THEN V3Course(read_details, historic_data)
                    ELSE V2Course(course, read_details, historic_data)
           read2 == ReadDirs(files,
                        ReadDirs(files, dirs, DataTop, course_location, "course",
                                 fallback),
                        DataTop, course_location, "historic", fallback)
       IN  IF built.kind = "raise"
           THEN /\ BuildRaise(built.exc)
                /\ dirs' = read2
           ELSE IF builder = "v3" /\ Exclude(built.val)
           THEN /\ idx' = idx + 1
                /\ course' = built.val
                /\ dirs' = read2
                /\ UNCHANGED <<builder, course_locations, all_confirmation_rates,
                               raised, step, courses, files>>
           ELSE IF rate.kind = "raise"
           THEN /\ BuildRaise(rate.exc)
                /\ dirs' = read2
           ELSE /\ idx' = idx + 1
                /\ course' = built.val
                /\ courses' = Append(courses, built.val)
                /\ all_confirmation_rates' =
                        Append(all_confirmation_rates,
                               IF Truthy(rate) THEN rate.val ELSE EmptyRecord)
                /\ dirs' = ReadDirs(files, read2, DataTop, course_location,
                                    "confirmation_rates", fallback)
                /\ UNCHANGED <<builder, course_locations, raised, step, files>>
    /\ UNCHANGED <<op, nops>>
    /\ UNCHANGED fetchVars
    /\ UNCHANGED <<source, grades, run, details, rates, gi, records, net, captured>>
    /\ UNCHANGED <<catalogue, page, articles, new_courses, closed>>

\* from_file_cache after its loop: the two CSV files
write_output ==
    /\ step = "loop"
    /\ idx > Len(course_locations)
    /\ IF courses = <<>>
       THEN BuildRaise("IndexError")
       ELSE /\ files' = RatesCsv(WriteCsv(files, DataTop, "courses", courses),
                                 DataTop, all_confirmation_rates,
                                 SortReverse(Keys(all_confirmation_rates[1])))
            /\ step' = "written"
            /\ UNCHANGED <<builder, course_locations, all_confirmation_rates, raised>>
            /\ UNCHANGED <<idx, course, courses>>
    /\ UNCHANGED <<dirs, op, nops>>
    /\ UNCHANGED fetchVars
    /\ UNCHANGED <<source, grades, run, details, rates, gi, records, net, captured>>
    /\ UNCHANGED <<catalogue, page, articles, new_courses, closed>>

BuildIdle ==
    /\ builder = "v3"
    /\ course_locations = <<>>
    /\ all_confirmation_rates = <<>>
    /\ raised = "-"

(***************************************************************************)
(* Specifications.                                                         *)
(***************************************************************************)
FetchIdle ==
    /\ pc = "idle"
    /\ call = NoCall
    /\ attempt = 0
    /\ client = 1
    /\ result = NoResult
    /\ printed = NoDiag
    /\ ledger = <<>>
    /\ trace = <<>>
    /\ sleeps = <<>>
    /\ acquired = [c \in Channels |-> <<>>]
    /\ ledger_mark = 0
    /\ nreq = 0

(***************************************************************************)
(* The fetch client under every retry bound, with the default channel      *)
(* table.                                                                  *)
(***************************************************************************)
DefaultLimits ==
    [c \in Channels |-> [requests |-> 1, seconds |-> 1, counter |-> 0]]

FetchInit ==
    /\ SearchIdle
    /\ BuildIdle
    /\ max_retries \in 0..MaxRetries
    /\ rate_limits = DefaultLimits
    /\ FetchIdle
    /\ StoreIdle
    /\ CrawlIdle

FetchNext ==
    \/ nreq < MaxRequests /\ \E v \in Verbs, u \in URIs : request(v, u)
    \/ nreq < MaxRequests /\ \E u \in URIs : fetch(u)
    \/ nreq < MaxRequests /\ \E u \in URIs : post(u)
    \/ nreq < MaxRequests
          /\ \E u \in URIs, t \in ChannelNames : fetch_with_rate_limit(u, t)
    \/ nreq < MaxRequests
          /\ \E u \in URIs, t \in ChannelNames : post_with_rate_limit(u, t)
    \/ \E o \in Outcomes : execute_request(o)
    \/ handle_retry
    \/ handle_failure
    \/ resume

FetchSpec == FetchInit /\ [][FetchNext]_vars

(***************************************************************************)
(* The fetch client alone, before or after a store has made the base       *)
(* directory.                                                              *)
(***************************************************************************)
LedgerInit ==
    /\ SearchIdle
    /\ BuildIdle
    /\ max_retries \in 0..1
    /\ rate_limits = DefaultLimits
    /\ FetchIdle
    /\ files = <<>>
    /\ dirs \in {{}, {<<DataTop>>}}
    /\ op = NoOp
    /\ nops = 0
    /\ CrawlIdle

LedgerNext ==
    \/ nreq < MaxRequests /\ \E v \in Verbs, u \in URIs : request(v, u)
    \/ nreq < MaxRequests /\ \E u \in URIs : fetch(u)
    \/ nreq < MaxRequests /\ \E u \in URIs : post(u)
    \/ \E o \in Outcomes : execute_request(o)
    \/ handle_retry
    \/ handle_failure
    \/ resume

LedgerSpec == LedgerInit /\ [][LedgerNext]_vars

(***************************************************************************)
(* The rate limiter under every channel budget, each gated request being   *)
(* answered at once or failing for good.                                   *)
(***************************************************************************)
LimitOutcomes ==
    {o \in Outcomes : \/ o.kind = "response" /\ o.body = ShortBody
                      \/ o.exc = "ReadTimeout"}

LimitInit ==
    /\ SearchIdle
    /\ BuildIdle
    /\ max_retries = 1
    /\ rate_limits \in [Channels -> Budgets]
    /\ FetchIdle
    /\ StoreIdle
    /\ CrawlIdle

LimitNext ==
    \/ nreq < MaxAcquires
          /\ \E u \in URIs, t \in ChannelNames : fetch_with_rate_limit(u, t)
    \/ nreq < MaxAcquires
          /\ \E u \in URIs, t \in ChannelNames : post_with_rate_limit(u, t)
    \/ \E o \in LimitOutcomes : execute_request(o)
    \/ handle_retry
    \/ handle_failure
    \/ resume

LimitSpec == LimitInit /\ [][LimitNext]_vars

StoreInit ==
    /\ SearchIdle
    /\ BuildIdle
    /\ max_retries = 3
    /\ rate_limits = DefaultLimits
    /\ FetchIdle
    /\ StoreIdle
    /\ CrawlIdle

StoreNext ==
    \/ nops < MaxOps
          /\ \E t \in Tops, l \in Locations, d \in Documents, c \in Contents :
                write(t, l, d, c)
    \/ nops < MaxOps
          /\ \E l \in FaultLocations, d \in Documents, c \in Contents,
                f \in Faults : write_fault(DataTop, l, d, c, f)
    \/ nops < MaxOps
          /\ \E l \in Locations, d \in Documents, f \in BOOLEAN :
                read(l, d, f)

StoreSpec == StoreInit /\ [][StoreNext]_vars

(***************************************************************************)
(* The cache store written at several depths and then read, listed and     *)
(* walked.                                                                 *)
(***************************************************************************)
QualificationLocation == << <<"p">>, <<"u">>, <<"t">>, <<"q">> >>
SiblingLocation == << <<"p">>, <<"u">>, <<"t">>, <<"q">>, <<"z">> >>
DeeperLocation == << <<"p">>, <<"u">>, <<"t">>, <<"q">>, <<"y">>, <<"x">> >>
ProviderLocation == << <<"p">>, <<"u">> >>

WrittenLocations ==
    {QualificationLocation, CourseLocation, SiblingLocation, DeeperLocation}
ListedLocations == {NoLocation, ShortLocation, ProviderLocation}

ListInit ==
    /\ SearchIdle
    /\ BuildIdle
    /\ max_retries = 3
    /\ rate_limits = DefaultLimits
    /\ FetchIdle
    /\ StoreIdle
    /\ CrawlIdle

ListNext ==
    \/ nops < MaxOps
          /\ \E t \in Tops, l \in WrittenLocations, c \in {GradesRecord, IdLines} :
                write(t, l, "historic", c)
    \/ nops < MaxOps
          /\ \E l \in ListedLocations \cup {CourseLocation}, f \in BOOLEAN :
                read(l, "historic", f)
    \/ nops < MaxOps
          /\ \E l \in ListedLocations \cup {CourseLocation},
                d \in {"historic", "historic.txt"} :
                read_list(l, d)
    \/ nops < MaxOps
          /\ \E l \in ListedLocations : cached_courses(l)

ListSpec == ListInit /\ [][ListNext]_vars

(***************************************************************************)
(* The acquisition script run up to MaxRuns times over one output          *)
(* directory, against every state of the statistics source.                *)
(***************************************************************************)
CrawlInit ==
    /\ SearchIdle
    /\ BuildIdle
    /\ max_retries = 2
    /\ rate_limits = DefaultLimits
    /\ FetchIdle
    /\ StoreIdle
    /\ source \in [Ids -> HistoricKinds]
    /\ grades \in GradeLists
    /\ run = 1
    /\ idx = 1
    /\ step = "details"
    /\ details = EmptyRecord
    /\ course = NoCourse
    /\ rates = EmptyRecord
    /\ gi = 1
    /\ records = [r \in 1..MaxRuns |-> <<>>]
    /\ net = [r \in 1..MaxRuns |-> <<>>]
    /\ captured = [r \in 1..MaxRuns |-> {}]

CrawlNext ==
    \/ fetch_basic_details
    \/ basic_details_return
    \/ fetch_historic_data
    \/ historic_grades_return
    \/ fetch_confirmation_rates
    \/ next_predicted_grade
    \/ confirmation_rate_return
    \/ \E g \in GradeLists : rerun(g)
    \/ \E o \in CrawlOutcomes : execute_request(o)
    \/ handle_retry
    \/ handle_failure

CrawlSpec == CrawlInit /\ [][CrawlNext]_vars

(***************************************************************************)
(* One search over every catalogue, with transient failures allowed on     *)
(* every request.                                                          *)
(***************************************************************************)
SearchInit ==
    /\ BuildIdle
    /\ max_retries = 2
    /\ rate_limits = DefaultLimits
    /\ FetchIdle
    /\ StoreIdle
    /\ catalogue \in Catalogues
    /\ page = 0
    /\ articles = <<>>
    /\ new_courses = <<>>
    /\ courses = <<>>
    /\ closed = FALSE
    /\ source \in {[id \in Ids |-> "grades"],
                   [id \in Ids |-> IF id = "c1" THEN "null" ELSE "missing"]}
    /\ grades \in GradeLists
    /\ run = 1
    /\ idx = 1
    /\ step = "page"
    /\ details = EmptyRecord
    /\ course = NoCourse
    /\ rates = EmptyRecord
    /\ gi = 1
    /\ records = [r \in 1..MaxRuns |-> <<>>]
    /\ net = [r \in 1..MaxRuns |-> <<>>]
    /\ captured = [r \in 1..MaxRuns |-> {}]

SearchNext ==
    \/ fetch_page
    \/ process_page
    \/ next_article
    \/ course_process_return
    \/ get_historic_data
    \/ historic_data_return
    \/ get_confirmation_rates
    \/ next_confirmation_rate
    \/ confirmation_rate_got
    \/ \E o \in CrawlOutcomes : execute_request(o)
    \/ handle_retry
    \/ handle_failure

SearchSpec == SearchInit /\ [][SearchNext]_vars

(***************************************************************************)
(* One id search, or one legacy search over a catalogue that lists         *)
(* nothing, with transient failures allowed on every request.              *)
(***************************************************************************)
CollectInit ==
    /\ BuildIdle
    /\ max_retries \in 0..2
    /\ rate_limits = DefaultLimits
    /\ FetchIdle
    /\ StoreIdle
    /\ \/ step = "ids_page" /\ catalogue \in Catalogues
       \/ step = "legacy_page" /\ catalogue \in UnlistedCatalogues
    /\ page = 0
    /\ articles = <<>>
    /\ new_courses = <<>>
    /\ courses = <<>>
    /\ closed = FALSE
    /\ source = [id \in Ids |-> "grades"]
    /\ grades = PredictedGrades
    /\ run = 1
    /\ idx = 1
    /\ details = EmptyRecord
    /\ course = NoCourse
    /\ rates = EmptyRecord
    /\ gi = 1
    /\ records = [r \in 1..MaxRuns |-> <<>>]
    /\ net = [r \in 1..MaxRuns |-> <<>>]
    /\ captured = [r \in 1..MaxRuns |-> {}]

CollectNext ==
    \/ collect_course_ids
    \/ search_courses
    \/ course_search
    \/ course_search_return
    \/ \E o \in CrawlOutcomes : execute_request(o)
    \/ handle_retry
    \/ handle_failure

CollectSpec == CollectInit /\ [][CollectNext]_vars

\* the search as the interpreter runs it: one thread, every sleep ends and
\* every call of the HTTP client returns or raises, so that a step that can
\* be taken is taken
FairCollectSpec == CollectSpec /\ WF_vars(CollectNext)

(***************************************************************************)
(* A record builder run over every state the cache of two courses can be   *)
(* in.                                                                     *)
(***************************************************************************)
\* the courses the cache holds, and what it holds of each
Uncached == [course |-> "none", historic |-> "absent", rates |-> FALSE]

Caches == [Ids -> Holdings \cup {Uncached}]

CacheOf(held) ==
    LET empty == [dirs |-> {<<DataTop>>}, files |-> <<>>]
        first == IF held["c1"] = Uncached THEN empty
                 ELSE Stored(empty, "c1", held["c1"])
    IN  IF held["c2"] = Uncached THEN first ELSE Stored(first, "c2", held["c2"])

BuildInit ==
    /\ SearchIdle
    /\ max_retries = 3
    /\ rate_limits = DefaultLimits
    /\ FetchIdle
    /\ builder \in Builders
    /\ course_locations = <<>>
    /\ all_confirmation_rates = <<>>
    /\ raised = "-"
    /\ \E held \in Caches :
            /\ files = CacheOf(held).files
            /\ dirs = CacheOf(held).dirs
    /\ op = NoOp
    /\ nops = 0
    /\ source = [id \in Ids |-> "grades"]
    /\ grades = PredictedGrades
    /\ run = 1
    /\ idx = 1
    /\ step = "off"
    /\ details = EmptyRecord
    /\ course = Unbound
    /\ rates = EmptyRecord
    /\ gi = 1
    /\ records = [r \in 1..MaxRuns |-> <<>>]
    /\ net = [r \in 1..MaxRuns |-> <<>>]
    /\ captured = [r \in 1..MaxRuns |-> {}]

BuildNext ==
    \/ from_file_cache
    \/ build_course
    \/ write_output

BuildSpec == BuildInit /\ [][BuildNext]_vars

(***************************************************************************)
(* Properties of the rate limiter and the fetch client.                    *)
(***************************************************************************)
\* the transport failures the claims call transient
ClaimTransient == {"ConnectTimeout", "ReadTimeout", "RemoteProtocolError"}

TransientAttempt(o) == o.kind = "exc" /\ o.exc \in ClaimTransient

Backoffs == {i \in 1..Len(sleeps) : sleeps[i].why = "backoff"}

Strip(s) == SelectSeq(s, LAMBDA ch : ch \notin Whitespace)

IsPrefix(a, b) == Len(a) <= Len(b) /\ a = SubSeq(b, 1, Len(a))

\* C1: on a channel with budget (N, S) whose counter starts at 0, the first
\* N acquires do not sleep, the (N+1)th sleeps for S seconds, and the
\* counter is 0 once the (N+1)th has returned.
C1_OverflowSleepsFullWindow ==
    \A c \in Channels :
        LET N == rate_limits[c].requests
            S == rate_limits[c].seconds
            log == acquired[c]
        IN  /\ \A i \in 1..Len(log) :
                /\ i <= N => log[i] = 0
                /\ i = N + 1 => log[i] = S
            /\ Len(log) <= N => rate_limits[c].counter = Len(log)
            /\ Len(log) = N + 1 => rate_limits[c].counter = 0

C1_Witness ==
    \E c \in Channels :
        /\ rate_limits[c].requests = 2
        /\ Len(acquired[c]) = 3
        /\ acquired[c][3] = rate_limits[c].seconds
        /\ rate_limits[c].counter = 0

\* C2: when attempts 1..k-1 fail with a transient transport error and
\* attempt k <= max_retries gets a 200 response, the request returns that
\* response's payload after exactly k-1 backoff sleeps and writes nothing to
\* the error ledger; the client gives up only after max_retries failures.
C2_SuccessAfterTransientFailures ==
    /\ (pc = "returned" /\ Last(trace).status = 200
            /\ \A i \in 1..(Len(trace) - 1) : TransientAttempt(trace[i]))
        => /\ result = BytesResult(Last(trace).body)
           /\ Cardinality(Backoffs) = Len(trace) - 1
           /\ \A i \in Backoffs : sleeps[i].secs = 1
           /\ Len(ledger) = ledger_mark
           /\ Len(trace) <= max_retries
    /\ (pc = "failure" \/ (pc = "raised" /\ result.exc = "HttpError"))
        => Len(trace) = max_retries

C2_Witness ==
    /\ pc = "returned"
    /\ Len(trace) = 3
    /\ TransientAttempt(trace[1]) /\ TransientAttempt(trace[2])
    /\ trace[3].status = 200
    /\ result = BytesResult(ShortBody)
    /\ Cardinality(Backoffs) = 2

\* C3: when every attempt up to max_retries fails with a transient
\* transport error, the request raises the terminal HttpError, returns no
\* value, and has appended its URI to the error ledger exactly once.
C3_ExhaustedRetriesRaiseAndLogOnce ==
    (pc \in {"returned", "raised"} /\ call.requested
        /\ Len(trace) = max_retries
        /\ \A i \in 1..Len(trace) : TransientAttempt(trace[i]))
    => /\ pc = "raised"
       /\ result = Raised("HttpError")
       /\ Len(ledger) = ledger_mark + 1
       /\ Last(ledger) = call.uri

C3_Witness ==
    /\ pc = "raised"
    /\ result = Raised("HttpError")
    /\ max_retries = 3
    /\ Len(trace) = 3
    /\ ledger = <<"u1", "u2">>

C5_NoRetryAfterResponse ==
    [][ /\ (pc = "execute" /\ Len(trace') = Len(trace) + 1
                /\ Last(trace').kind = "response")
            => /\ pc' = "returned"
               /\ sleeps' = sleeps
               /\ result'.kind \in {"bytes", "int"}
        /\ pc = "returned" => pc' = "idle" /\ nreq' = nreq
        /\ Len(trace') <= max_retries'
        /\ (pc = "idle" /\ call'.requested) => attempt' = 0 /\ trace' = <<>>
        /\ pc' = "execute" => attempt' = Len(trace')
      ]_vars

C5_Witness ==
    /\ pc = "returned"
    /\ nreq = 2
    /\ max_retries = 3
    /\ Len(trace) = 3
    /\ Last(trace).status = 404

\* C6: a failure of an attempt other than a connect timeout, read timeout
\* or protocol reset leaves the request on that attempt, with no backoff
\* sleep, no new connection and no error-ledger entry.
C6_OtherFailuresPropagate ==
    [][ /\ (pc = "execute" /\ Len(trace') = Len(trace) + 1
                /\ Last(trace').kind # "response"
                /\ Last(trace').exc \notin ClaimTransient)
            => /\ pc' = "raised"
               /\ result' = Raised(Last(trace').exc)
               /\ sleeps' = sleeps
               /\ client' = client
               /\ ledger' = ledger
        /\ (pc = "raised" /\ result.exc \notin {"HttpError", "KeyError"})
            => /\ pc' = "idle"
               /\ client' = client
               /\ ledger' = ledger
      ]_vars

C6_Witness ==
    /\ pc = "raised"
    /\ result = Raised("ConnectError")
    /\ Len(trace) = 2
    /\ TransientAttempt(trace[1])
    /\ Len(ledger) = ledger_mark

\* C7: an acquire on a channel name that is not configured raises at once:
\* no counter changes, nothing sleeps, and the gated request is never made.
C7_UnknownChannelFailsFast ==
    [][ /\ (pc = "idle" /\ call'.channel \notin (DOMAIN rate_limits) \cup {"-"})
            => /\ pc' = "raised"
               /\ result' = Raised("KeyError")
               /\ rate_limits' = rate_limits
               /\ acquired' = acquired
               /\ sleeps' = <<>>
               /\ trace' = <<>>
               /\ ~call'.requested
        /\ (pc = "raised" /\ result.exc = "KeyError")
            => pc' = "idle" /\ client' = client /\ ledger' = ledger
      ]_vars

C7_Witness ==
    /\ pc = "raised"
    /\ result = Raised("KeyError")
    /\ call.channel = "bogus"
    /\ rate_limits["universal"].counter = 1
    /\ trace = <<>>


\* C26: the error ledger is append-only and grows by whole lines: a step
\* changes it only by appending one line, the URI of the call that has
\* just failed for good, with the ledger's parent directory existing
\* afterwards; every terminal failure appends that line; a call that
\* returns (a body, NotFound or another status) has appended nothing.
C26_LedgerAppendOnly ==
    /\ [][ ledger' # ledger =>
            /\ pc = "failure"
            /\ ledger' = Append(ledger, call.uri)
            /\ ErrorLogParent \in dirs' ]_vars
    /\ [][ pc = "failure" => Len(ledger') = Len(ledger) + 1 ]_vars
    /\ [](pc = "returned" => Len(ledger) = ledger_mark)
    /\ [](pc = "raised" /\ result = Raised("HttpError")
            => (Len(ledger) = ledger_mark + 1 /\ ErrorLogParent \in dirs))

C26_Witness ==
    /\ pc = "raised"
    /\ ledger = <<"u1", "u2">>
    /\ call.uri = "u2"
    /\ dirs = {ErrorLogParent}

\* C32: between acquires the counter of every channel lies between 0 and
\* the channel's budget, whatever channels the acquires made so far named;
\* an acquire changes the counter of the channel it names and of no other
\* channel, and nothing but an acquire changes a counter.
C32_CounterWithinBudget ==
    [][ /\ \A c \in Channels :
                /\ 0 <= rate_limits[c].counter
                /\ rate_limits[c].counter <= rate_limits[c].requests
                /\ 0 <= rate_limits'[c].counter
                /\ rate_limits'[c].counter <= rate_limits'[c].requests
        /\ \A c \in Channels :
                rate_limits'[c] # rate_limits[c]
                    => /\ pc = "idle"
                       /\ call'.channel = c
                       /\ Len(acquired'[c]) = Len(acquired[c]) + 1
                       /\ rate_limits'[c].requests = rate_limits[c].requests
                       /\ rate_limits'[c].seconds = rate_limits[c].seconds
      ]_vars

C32_Witness ==
    \E c, d \in Channels :
        /\ c # d
        /\ rate_limits[c].requests = 2
        /\ rate_limits[c].counter = 2
        /\ Len(acquired[c]) = 2
        /\ rate_limits[d].requests = 1
        /\ rate_limits[d].counter = 0
        /\ Len(acquired[d]) = 2

\* C33: on a channel with budget (N, S) whose counter lives as long as the
\* fetch client, the acquires that sleep are exactly those numbered N+1,
\* 2(N+1), 3(N+1), ..., each for S seconds: the overflowing acquire is not
\* counted after the reset, so that N+1 requests pass between two sleeps,
\* and the counter holds the number of acquires since the last sleep.
C33_SleepsEveryBudgetPlusOne ==
    \A c \in Channels :
        LET N == rate_limits[c].requests
            S == rate_limits[c].seconds
            log == acquired[c]
        IN  /\ \A i \in 1..Len(log) :
                    log[i] = (IF i % (N + 1) = 0 THEN S ELSE 0)
            /\ rate_limits[c].counter = Len(log) % (N + 1)

C33_Witness ==
    \E c \in Channels :
        /\ rate_limits[c].requests = 1
        /\ rate_limits[c].seconds = 2
        /\ acquired[c] = <<0, 2, 0, 2>>
        /\ rate_limits[c].counter = 0

\* C34: every attempt that fails with a transient transport error is
\* followed by one backoff sleep and one new connection, the last attempt
\* included, so that a request all of whose max_retries attempts fail has
\* slept max_retries times when it gives up; only then does it append its
\* URI to the error ledger and raise, the append first.  With max_retries
\* 0 it makes no attempt and still appends and raises.
C34_BackoffAfterEveryFailure ==
    [][ /\ pc = "retry"
            => /\ TransientAttempt(Last(trace))
               /\ sleeps' = Append(sleeps, [why |-> "backoff", secs |-> 1])
               /\ client' = client + 1
               /\ ledger' = ledger
               /\ pc' = IF Len(trace) < max_retries THEN "execute" ELSE "failure"
        /\ pc = "failure"
            => /\ Len(trace) = max_retries
               /\ \A i \in 1..Len(trace) : TransientAttempt(trace[i])
               /\ Cardinality(Backoffs) = max_retries
               /\ Len(ledger) = ledger_mark
               /\ result.kind # "raise"
               /\ ledger' = Append(ledger, call.uri)
               /\ result' = Raised("HttpError")
               /\ pc' = "raised"
               /\ sleeps' = sleeps
               /\ client' = client
        /\ (pc = "idle" /\ call'.requested /\ max_retries = 0)
            => /\ pc' = "failure"
               /\ trace' = <<>>
        /\ Len(trace') > 0 => max_retries > 0
        /\ (pc' = "raised" /\ result' = Raised("HttpError")) => pc = "failure"
      ]_vars

C34_Witness ==
    /\ pc = "raised"
    /\ result = Raised("HttpError")
    /\ max_retries = 3
    /\ Len(trace) = 3
    /\ Cardinality(Backoffs) = 3
    /\ Last(sleeps).why = "backoff"
    /\ Len(ledger) = ledger_mark + 1

\* a request that gave up without an attempt
C34_NoAttempt ==
    /\ pc = "raised"
    /\ result = Raised("HttpError")
    /\ max_retries = 0
    /\ trace = <<>>
    /\ sleeps = <<>>
    /\ Last(ledger) = call.uri

(***************************************************************************)
(* Properties of the cache store.                                          *)
(***************************************************************************)
\* C8: for every location L, name D and structured record R,
\* write(L, D, R) followed by read(L, D) with fallback disabled returns a
\* value deep-equal to R.
C8_RoundTrip ==
    [][ (/\ op.name = "write" /\ op.top = DataTop /\ op.content.type = "dict"
         /\ op'.name = "read" /\ nops' = nops + 1 /\ ~op'.fallback
         /\ op'.location = op.location /\ op'.document = op.document)
        => /\ op'.ret.kind = "value"
           /\ DeepEqual(op'.ret.val, op.content)
      ]_vars

\* C9: with fallback enabled, a document absent from the current store and
\* present in the prior-version store is read as the prior-version
\* content; one absent from both stores is read as the same "not present"
\* result that a read with fallback disabled gives.
C9_FallbackRead ==
    [][ (op'.name = "read" /\ nops' = nops + 1 /\ op'.fallback) =>
            LET here == FilePath(FolderPath(DataTop, op'.location),
                                 op'.document, "json")
                there == FilePath(FolderPath(LegacyTop, op'.location),
                                  op'.document, "json")
            IN  here \notin DOMAIN files =>
                    /\ there \in DOMAIN files =>
                        /\ op'.ret.kind = "value"
                        /\ files[there] = JsonDump(op'.ret.val)
                    /\ there \notin DOMAIN files =>
                        op'.ret = Read(files, DataTop, op'.location,
                                       op'.document, FALSE)
      ]_vars

\* a directory is inside a store when its path starts at the store's root
Inside(top, folder) == Len(folder) >= 1 /\ folder[1] = top

\* the documents named document in a directory
DocumentsAt(folder, document) ==
    {path \in DOMAIN files : path.folder = folder /\ path.name = document}

\* C17: for every location sequence of untrusted strings, the physical
\* path that a read or a write resolves is inside the store's root
\* directory, and so is every file the store holds.
C17_Containment ==
    /\ op.name # "none" => Inside(op.top, FolderPath(op.top, op.location))
    /\ \A path \in DOMAIN files : \E top \in Tops : Inside(top, path.folder)

\* C18: two location sequences handed to the same store resolve to the
\* same physical directory exactly when they are equal, also when they
\* differ only in characters that sanitization strips or replaces.
C18_NoCollision ==
    [][ (nops' = nops + 1 /\ op.name # "none" /\ op'.top = op.top)
        => (FolderPath(op'.top, op'.location) = FolderPath(op.top, op.location)
                <=> op'.location = op.location)
      ]_vars

\* C19: after a write(L, D, c), whatever the shapes of the contents written
\* to (L, D) so far, the store holds exactly one document named D at L,
\* its content is that of this last write, and a following read gives no
\* record other than the one last written.
C19_Overwrite ==
    /\ [](op.name = "write" =>
        LET docs == DocumentsAt(FolderPath(op.top, op.location), op.document)
        IN  /\ Cardinality(docs) = 1
            /\ \A path \in docs : files[path] = Serialized(op.content))
    /\ [][ (/\ op.name = "write" /\ op.top = DataTop
            /\ op'.name = "read" /\ nops' = nops + 1 /\ ~op'.fallback
            /\ op'.location = op.location /\ op'.document = op.document
            /\ op'.ret.kind = "value")
           => /\ op.content.type = "dict"
              /\ DeepEqual(op'.ret.val, op.content)
         ]_vars

\* C20: an I/O failure at any step of a cache write, creating the
\* directory tree or writing the document, is not raised: write returns
\* normally and the store's documents are left as they were.
C20_WriteFailureReported ==
    [][ (op'.name = "write_fault" /\ nops' = nops + 1)
        => /\ op'.ret.kind # "raise"
           /\ files' = files
      ]_vars

\* whether the current store holds the document of a read as a file that
\* json.load does not take
Undecodable(location, document) ==
    /\ Found(files, DataTop, location, document)
    /\ ~JsonLoad(files[FilePath(FolderPath(DataTop, location), document,
                                "json")]).ok

\* C21: a read of a document that the current store holds but that cannot
\* be deserialized returns absent and raises nothing, with or without
\* fallback, and does not go to the prior-version store.
C21_UndecodableReadsAbsent ==
    [][ (/\ op'.name = "read" /\ nops' = nops + 1
         /\ Undecodable(op'.location, op'.document))
        => /\ op'.ret = None
           /\ dirs' = Mkdir(dirs, FolderPath(DataTop, op'.location)) ]_vars

\* the directories that lie a number of levels below a directory
DirectoriesBelow(folder, levels) ==
    {d \in dirs : /\ Len(d) = Len(folder) + levels
                  /\ SubSeq(d, 1, Len(folder)) = folder}

\* C22: the listing of the cached courses of a location holds exactly the
\* directories 4 levels below the location, each once: no directory of
\* another depth and no file is in it.
C22_ListsDepthFour ==
    op.name = "cached_courses" =>
        LET expected == DirectoriesBelow(FolderPath(op.top, op.location), 4)
            got == op.ret.val.lines
        IN  /\ Len(got) = Cardinality(expected)
            /\ {got[i] : i \in 1..Len(got)} = {LastFive(d) : d \in expected}

C22_Witness ==
    /\ op.name = "cached_courses"
    /\ op.location = ShortLocation
    /\ Len(op.ret.val.lines) = 1
    /\ \E path \in DOMAIN files :
            path.folder = FolderPath(DataTop, QualificationLocation)
    /\ DirectoriesBelow(FolderPath(DataTop, ShortLocation), 5) # {}

\* C23: read, with or without fallback, read_list and the listing of the
\* cached courses change neither store: no document and no directory is
\* created, so a fallback hit is not copied forward and a location exists
\* only when a write went to it.
C23_ReadsChangeNothing ==
    [][ (op'.name \in {"read", "read_list", "cached_courses"}
            /\ nops' = nops + 1)
        => (files' = files /\ dirs' = dirs) ]_vars

\* C35: every location in the listing of the cached courses of a starting
\* location, of whatever length, names, when handed back to the store, one
\* of the directories the listing found: a directory 4 levels below the
\* starting location.
C35_ListedLocationsResolve ==
    op.name = "cached_courses" =>
        LET found == DirectoriesBelow(FolderPath(op.top, op.location), 4)
            got == op.ret.val.lines
        IN  {FolderPath(op.top, got[i]) : i \in 1..Len(got)} = found

\* the listing of a starting location of one segment
C35_OneSegment ==
    (op.name = "cached_courses" /\ Len(op.location) = 1) =>
        LET found == DirectoriesBelow(FolderPath(op.top, op.location), 4)
            got == op.ret.val.lines
        IN  {FolderPath(op.top, got[i]) : i \in 1..Len(got)} = found

\* a line without the line end str.splitlines takes off
Chomp(line) ==
    IF line # <<>> /\ Last(line) = "\n" THEN SubSeq(line, 1, Len(line) - 1)
    ELSE line

\* C36: a list of strings written under a name at a location is what
\* reading the list of that name at that location returns: the same
\* strings in the same order.
C36_LinesReadBack ==
    [][ (/\ op.name = "write"
         /\ op.content.type = "list"
         /\ op.top = DataTop
         /\ op'.name = "read_list"
         /\ op'.location = op.location
         /\ op'.document = op.document)
        => op'.ret.val.lines = op.content.lines ]_vars

\* the list read back under the name of the file the write made: the
\* strings written, each without its line end
C36_ReadBackWithoutLineEnds ==
    [][ (/\ op.name = "write"
         /\ op.content = IdLines
         /\ op.top = DataTop
         /\ op'.name = "read_list"
         /\ op'.location = op.location
         /\ op'.document = op.document \o ".txt")
        => /\ op'.ret.val.lines
                = [i \in 1..Len(IdLines.lines) |-> Chomp(IdLines.lines[i])]
           /\ op'.ret.val.lines # IdLines.lines ]_vars

(***************************************************************************)
(* Properties of the acquisition.                                          *)
(***************************************************************************)
\* C10: when the acquisition is run twice against an unchanged catalogue
\* and an unchanged statistics source, the second run hands the fetch
\* client no request whose answer the first run put in the cache, and once
\* both runs have processed every course the merged records of the second
\* run are those of the first.
C10_IdempotentCrawl ==
    /\ run = 2 => Range(net[2]) \cap captured[1] = {}
    /\ (run = 2 /\ step = "done" /\ Len(records[1]) = Len(UcasIds))
        => records[2] = records[1]

\* the cache location of a course of the catalogue, and the file of one of
\* its documents
CachedPath(id, document) ==
    FilePath(FolderPath(DataTop, LocationOfId(id)), document, "json")

\* the mapping of grades to rates the cache holds for a course
CachedRates(id) ==
    LET cached == ReadHere(files, DataTop, LocationOfId(id), "confirmation_rates")
    IN  IF Truthy(cached) THEN cached.val ELSE EmptyRecord

\* whether the cache holds what a request asks the network for
HeldFor(n) ==
    \E id \in Ids :
        \/ /\ n.verb = "GET" /\ n.uri = DetailsUrl(id)
           /\ CachedPath(id, "course") \in DOMAIN files
        \/ /\ n.verb = "GET" /\ n.uri = HistoricUrl(id)
           /\ CachedPath(id, "historic") \in DOMAIN files
        \/ /\ n.verb = "POST" /\ n.payload.courseIds = id
           /\ HasKey(CachedRates(id), n.payload.grade)

\* C12: a request for an entity's document - its details, its historic
\* grades, its confirmation rate for a grade - is handed to the network
\* only when the cache does not hold that document; what the cache holds
\* is never requested.
C12_CacheFirst ==
    [][ net' # net => ~HeldFor(Last(net'[run])) ]_vars

\* the number of confirmation-rate requests of this run for a course and a
\* grade
RateRequests(id, grade) ==
    Cardinality({i \in 1..Len(net[run]) :
        /\ net[run][i].verb = "POST"
        /\ net[run][i].payload = ConfirmationRatePayload(id, grade)})

\* C13: for a course with configured grades G and cached mapping M, the run
\* makes exactly one confirmation-rate request for each grade of G that is
\* not a key of M and none for a grade that is; the mapping written then
\* has every grade of G, and the grades M had keep their values.
C13_IncrementalConfirmationRates ==
    /\ [](step \in {"rates_loop", "rates_wait"} =>
            \A g \in Range(grades) :
                RateRequests(CurrentId, g)
                    <= (IF HasKey(CachedRates(CurrentId), g) THEN 0 ELSE 1))
    /\ [][ (step = "rates_loop" /\ step' \in {"details", "done"}) =>
            LET M == CachedRates(CurrentId)
                written == JsonLoad(files'[CachedPath(CurrentId,
                                            "confirmation_rates")]).val
            IN  /\ \A g \in Range(grades) :
                    /\ RateRequests(CurrentId, g)
                            = (IF HasKey(M, g) THEN 0 ELSE 1)
                    /\ HasKey(written, g)
                    /\ HasKey(M, g) => Get(written, g, "-") = Get(M, g, "-")
                /\ \A g \in Range(PredictedGrades) \ Range(grades) :
                    RateRequests(CurrentId, g) = 0
         ]_vars

C13_Witness ==
    /\ run = 2
    /\ grades = PredictedGrades
    /\ idx = 2
    /\ step = "details"
    /\ \E i \in 1..Len(net[1]) :
            net[1][i].payload = ConfirmationRatePayload("c1", "ABC")
    /\ \A i \in 1..Len(net[1]) :
            net[1][i].payload # ConfirmationRatePayload("c1", "DEF")
    /\ \A i \in 1..Len(net[2]) :
            net[2][i].payload # ConfirmationRatePayload("c1", "ABC")
    /\ \E i \in 1..Len(net[2]) :
            net[2][i].payload = ConfirmationRatePayload("c1", "DEF")
    /\ HasKey(CachedRates("c1"), "ABC")
    /\ HasKey(CachedRates("c1"), "DEF")

\* C15: a non-success status returned for a request of the crawl is a
\* classified outcome and never an error: the crawl is not ended by it.
C15_StatusIsNoError ==
    [][ (step' = "aborted" /\ step # "aborted") => result.kind # "int" ]_vars

\* C16: for a Success body that cannot be decoded into a mapping the JSON
\* fetch returns the empty mapping and raises nothing, so the acquisition
\* goes on with an empty historic document; a hard fetch failure raises.
C16_DecodeFailureIsEmpty ==
    [][ (step = "historic_wait" /\ step' # step) =>
            /\ (result.kind = "bytes" /\ ~JsonLoad(result.bytes).ok) =>
                /\ step' # "aborted"
                /\ files'[CachedPath(CurrentId, "historic")]
                        = JsonDump(EmptyRecord)
            /\ (result.kind = "raise" /\ result.exc = "HttpError") =>
                step' = "aborted"
      ]_vars

\* the acquires made on the rate-limit channels so far
Acquires == Cardinality({<<c, i>> \in Channels \X (1..MaxAcquires * MaxRuns * 2) :
                            i <= Len(acquired[c])})

\* C29: every request the acquisition hands to the network is preceded by
\* exactly one acquire on a rate-limit channel, an acquire is made for a
\* request only (a document found in the cache consumes no budget), and a
\* run that has ended without an exception has written the answer of each
\* of its requests to the cache.
C29_RateLimitedAndCached ==
    /\ [][ net' # net => Acquires' = Acquires + 1 ]_vars
    /\ [][ Acquires' > Acquires => net' # net ]_vars
    /\ [](step = "done" => Range(net[run]) \subseteq captured[run])

\* C30: a confirmation rate the source refused (a response that was not
\* 200) is a gap the next run fills: the cache never holds a rate for a
\* grade of an unrated course, and a second run that has ended has
\* requested the rate of each of its grades for that course again.
C30_GapsRefilled ==
    \A id \in Ids :
        source[id] = "unrated" =>
            /\ \A g \in Range(PredictedGrades) : ~HasKey(CachedRates(id), g)
            /\ (run = 2 /\ step = "done") =>
                \A g \in Range(grades) :
                    \E i \in 1..Len(net[run]) :
                        /\ net[run][i].verb = "POST"
                        /\ net[run][i].payload = ConfirmationRatePayload(id, g)

\* the request for the historic grades of a course
HistoricRequest(id) ==
    [verb |-> "GET", uri |-> HistoricUrl(id), payload |-> NoPayload]

\* the cache holds a historic document for the course and it is the empty
\* record
HoldsEmptyHistoric(id) ==
    /\ CachedPath(id, "historic") \in DOMAIN files
    /\ ReadHere(files, DataTop, LocationOfId(id), "historic") = Value(EmptyRecord)

\* C37: a cached historic document that is there and holds the empty
\* record counts as not there: in every run that finds it so, the request
\* for the historic grades of the course is made again, as it is when the
\* cache holds no such document, and what the request returns is written
\* over the document.
C37_EmptyHistoricRefetched ==
    [][ /\ (/\ step = "historic"
            /\ \/ HoldsEmptyHistoric(CurrentId)
               \/ CachedPath(CurrentId, "historic") \notin DOMAIN files)
            => /\ step' = "historic_wait"
               /\ net'[run] = Append(net[run], HistoricRequest(CurrentId))
               /\ call'.uri = HistoricUrl(CurrentId)
               /\ files' = files
        /\ (step = "historic_wait" /\ step' = "rates")
            => /\ HistoricRequest(CurrentId) \in captured'[run]
               /\ files'[CachedPath(CurrentId, "historic")]
                    = JsonDump(FetchJson(result).val)
      ]_vars

C37_Witness ==
    /\ run = 2
    /\ source["c1"] = "empty"
    /\ idx = 1
    /\ step = "rates"
    /\ Len(net[1]) >= 2
    /\ net[1][2] = HistoricRequest("c1")
    /\ Len(net[2]) = 2
    /\ net[2][2] = HistoricRequest("c1")
    /\ HistoricRequest("c1") \in captured[2]
    /\ HoldsEmptyHistoric("c1")

(***************************************************************************)
(* Properties of the catalogue search.                                     *)
(***************************************************************************)
\* the page requests of the search, in the order they were made, as page
\* numbers
PagesFetched ==
    LET numbers == 1..(Len(catalogue) + 1)
        asked == SelectSeq(net[run],
                    LAMBDA n : \E k \in numbers : n.uri = PageUrl(k))
    IN  [i \in 1..Len(asked) |-> CHOOSE k \in numbers : asked[i].uri = PageUrl(k)]

\* the first page of the catalogue that lists nothing
FirstEmptyPage ==
    CHOOSE p \in 1..(Len(catalogue) + 1) :
        /\ p > Len(catalogue) \/ catalogue[p] = <<>>
        /\ \A q \in 1..(p - 1) : catalogue[q] # <<>>

\* the courses listed on the pages before a given one, in order
RECURSIVE ListedBefore(_)
ListedBefore(p) ==
    IF p <= 1 THEN <<>> ELSE ListedBefore(p - 1) \o catalogue[p - 1]

C14_TerminalFailureAborts ==
    /\ [][ (pc = "raised" /\ result.exc = "HttpError" /\ pc' = "idle")
                => step' = "aborted" ]_vars
    /\ [][ step = "aborted" =>
                (net' = net /\ courses' = courses
                    /\ new_courses' = new_courses) ]_vars

\* the HttpClient objects still open: __handle_retry replaces self.client
\* without closing it, close() closes the one self.client names
OpenClients(made, is_closed) == IF is_closed THEN 1..(made - 1) ELSE 1..made

\* C27: once the search has closed its fetcher, no HttpClient the fetcher
\* created is open, those replaced during retries included.
C27_CloseLeavesNothingOpen ==
    closed => OpenClients(client, closed) = {}

\* C28: the search ends its pagination only on a page of the catalogue that
\* lists no course: when it is done, the page in hand is the first empty
\* page, whatever happened to the courses of the pages before it.
C28_EndsOnEmptyPageOnly ==
    step = "done" => page = FirstEmptyPage

\* the courses whose page the search has requested, in the order of the
\* requests
CoursesRequested ==
    LET asked == SelectSeq(net[run],
                    LAMBDA n : \E id \in Ids : n.uri = CourseUrl(id))
    IN  [i \in 1..Len(asked) |-> CHOOSE id \in Ids : asked[i].uri = CourseUrl(id)]

\* the sequence `part` is what is left of `whole` when some of its elements
\* are dropped: the order of the others is kept
RECURSIVE KeepsOrder(_, _)
KeepsOrder(part, whole) ==
    IF part = <<>> THEN TRUE
    ELSE IF whole = <<>> THEN FALSE
    ELSE IF Head(part) = Head(whole) THEN KeepsOrder(Tail(part), Tail(whole))
    ELSE KeepsOrder(part, Tail(whole))

\* the courses collected so far: those of the pages before, then those of
\* the page in hand until the loop over the pages has taken them
Collected ==
    LET all == IF step \in {"page", "page_wait", "aborted"} THEN courses
               ELSE courses \o new_courses
    IN  [i \in 1..Len(all) |-> all[i].ucas_id]

\* C31: the courses are processed page after page and, within a page, in
\* the order the parser gave them: the courses requested so far are the
\* first ones of the listing of the catalogue, pages in order and each page
\* in its own order; the collected sequence keeps that order, no course
\* of a later page before one of an earlier page and none moved within its
\* page.
C31_ProcessedInListingOrder ==
    /\ \E n \in 0..Len(ListedBefore(Len(catalogue) + 1)) :
            CoursesRequested = SubSeq(ListedBefore(Len(catalogue) + 1), 1, n)
    /\ KeepsOrder(Collected, CoursesRequested)
    /\ step = "done" =>
            /\ new_courses = <<>>
            /\ files[FilePath(<<DataTop>>, "courses", "csv")]
                    = <<"ucas_id">> \o Collected

C31_Witness ==
    /\ step = "done"
    /\ catalogue = << <<"c1">>, <<"c1", "c2">>, <<>> >>
    /\ CoursesRequested = <<"c1", "c1", "c2">>
    /\ Collected = <<"c1", "c1", "c2">>

\* the search is over: it finished or an exception ended it
Stopped == step \in {"done", "aborted"}

\* C38: a search over a catalogue that has a page listing nothing, every
\* call of the HTTP client returning or raising, comes to its end, finished
\* or aborted: it does not go on requesting pages, and a request that has
\* begun is always brought to its return or its terminal failure, never
\* left in a backoff or in a wait of the rate limiter.
C38_SearchStops ==
    /\ (\E p \in 1..Len(catalogue) : catalogue[p] = <<>>) => <>Stopped
    /\ (pc \in {"execute", "retry", "failure"}) ~> (pc \in {"returned", "raised"})
    /\ (pc \in {"returned", "raised"}) ~> (pc = "idle")
    /\ [](page <= Len(catalogue) + 1)

C38_Witness ==
    /\ step = "done"
    /\ catalogue = << <<"c1">>, <<"c2">>, <<>> >>
    /\ page = 3
    /\ courses = <<IdLine("c1"), IdLine("c2")>>
    /\ client = 3
    /\ Len(net[run]) = 3

\* C39: however a search ends - after its last page, on the terminal
\* failure of a fetch or on any other exception - it has closed the fetch
\* client, once, as it ends, and makes no request afterwards.
C39_ClosedOnEveryExit ==
    [][ /\ Stopped' => closed'
        /\ (closed' /\ ~closed) => Stopped'
        /\ closed => (closed' /\ net' = net /\ nreq' = nreq)
      ]_vars

\* the search is the one of search.py: its Output made the store of the
\* study year
Legacy == <<YearTop>> \in dirs

\* the searches whose search_courses has a finally clause close the fetch
\* client on every exit
C39_ClosedWithFinally ==
    [][ ~Legacy' =>
            /\ Stopped' => closed'
            /\ (closed' /\ ~closed) => Stopped'
            /\ closed => (closed' /\ net' = net /\ nreq' = nreq)
      ]_vars

\* a legacy search left by the terminal failure of its first fetch
C39_LeftOpen ==
    /\ Legacy
    /\ step = "aborted"
    /\ result = NoResult
    /\ Len(ledger) = 1
    /\ ~closed

(***************************************************************************)
(* Properties of the record builders.                                      *)
(***************************************************************************)
\* a cached document that is whole: the details with their id and every
\* field, the historic grades with no result or a first result of three
\* grades
WholeDetails(d) == HasKey(d, "id") /\ \A k \in DetailKeys : HasKey(d, k)

WholeHistoric(h) ==
    /\ HasKey(h, "results")
    /\ Get(h, "results", EmptyList) # EmptyList => \A k \in GradeKeys : HasKey(h, k)

\* every document of the cache is absent or whole
SourcesAbsentOrWhole ==
    \A path \in DOMAIN files :
        /\ path.ext = "json" => JsonLoad(files[path]).ok
        /\ path.name = "course" => WholeDetails(JsonLoad(files[path]).val)
        /\ path.name = "historic" => WholeHistoric(JsonLoad(files[path]).val)

\* the record of a cached course: the fields of the documents it has, the
\* defaults of Course() for those it lacks
RecordOf(location) ==
    LET d == ReadHere(files, DataTop, location, "course")
        h == ReadHere(files, DataTop, location, "historic")
        basic == IF Truthy(d)
                 THEN [NoCourse EXCEPT
                         !.ucas_id = Get(d.val, "id", ""),
                         !.provider_sort = Get(d.val, "providerSort", ""),
                         !.title = Get(d.val, "courseTitle", ""),
                         !.qualification = Get(d.val, "qualification", "")]
                 ELSE NoCourse
    IN  IF HasResults(h) THEN HistoricFields(basic, h.val) ELSE basic

\* C24: whichever of the details, historic grades and confirmation rates of
\* the cached courses are absent, the builder raises nothing and, once it
\* has written its output, has made exactly one record for every cached
\* course, in the order of the listing, holding the fields of the documents
\* the course has and the defaults for those it lacks.
C24_OneRecordPerCachedCourse ==
    SourcesAbsentOrWhole =>
        /\ step # "raised"
        /\ step = "written" =>
            /\ Len(courses) = Len(course_locations)
            /\ \A i \in 1..Len(courses) : courses[i] = RecordOf(course_locations[i])
            /\ files[FilePath(<<DataTop>>, "courses", "csv")]
                    = <<"ucas_id">> \o [i \in 1..Len(courses) |-> courses[i].ucas_id]

\* C25: a cached document that is no JSON text or that lacks a field the
\* builder reads makes the v3 builder raise nothing: from_file_cache goes
\* through every cached course and writes its output.
C25_MalformedDegrades ==
    builder = "v3" =>
        /\ step # "raised"
        /\ step = "written" => Len(courses) = Len(course_locations)

\* C40: a builder run over any state of the cache, the cache that holds no
\* course included, makes no request and raises nothing: it goes through
\* the cached courses and writes its output.
C40_BuildsFromCacheAlone ==
    /\ nreq = 0
    /\ pc = "idle"
    /\ \A r \in 1..MaxRuns : net[r] = <<>>
    /\ step # "raised"

\* the builders make no request and leave the error ledger alone
C40_NoRequest ==
    /\ nreq = 0
    /\ pc = "idle"
    /\ client = 1
    /\ ledger = <<>>
    /\ \A r \in 1..MaxRuns : net[r] = <<>>

\* the v3 builder over a cache that holds no course
C40_EmptyCacheRaises ==
    /\ builder = "v3"
    /\ step = "raised"
    /\ raised = "IndexError"
    /\ course_locations = <<>>
    /\ DOMAIN files = {}

====
